---------------------------- MODULE Spec2Model ----------------------------
(***************************************************************************)
(* A model of olap-learn's spreadsheet parser (src/src/parser.py): the     *)
(* age-group parser, the year-range calculator, the nationality-table      *)
(* scanner and the age/sex-table scanner; and of the insert into the fact  *)
(* table of its database layer (src/src/db.py).                            *)
(*                                                                         *)
(* Text.  A Python str is a sequence of characters, each character a TLA+  *)
(* string.  ASCII characters stand for themselves.  A Cyrillic letter is   *)
(* written by its entity name ("fcy" is the small letter ef, "Fcy" the     *)
(* capital one, "iecy" the small letter ie, "softcy" the soft sign ...),   *)
(* "\n" is the line feed, "--" the en dash, "---" the em dash and "^2"     *)
(* the superscript two.  Python's None is the value None below, which is   *)
(* no str because no character is named "None".                            *)
(***************************************************************************)
EXTENDS Integers, Sequences, FiniteSets, Bags, TLC

VARIABLES pag, cyr, nat, age, db

vars == <<pag, cyr, nat, age, db>>

None == <<"None">>

\* An empty cell of a sheet, as pandas reads it: pd.notna is false of it.
NaN == <<"NaN">>

\* The empty dict.
EmptyMap == <<>>

-----------------------------------------------------------------------------
(* Characters and the str methods the parser uses.                         *)

\* str.lower() on the letters of the model's alphabet.
UpperToLower ==
    [A |-> "a", B |-> "b", C |-> "c", D |-> "d", E |-> "e", F |-> "f",
     G |-> "g", H |-> "h", I |-> "i", J |-> "j", K |-> "k", L |-> "l",
     M |-> "m", N |-> "n", O |-> "o", P |-> "p", Q |-> "q", R |-> "r",
     S |-> "s", T |-> "t", U |-> "u", V |-> "v", W |-> "w", X |-> "x",
     Y |-> "y", Z |-> "z",
     Acy |-> "acy", Bcy |-> "bcy", Chcy |-> "chcy", Dcy |-> "dcy",
     Ecy |-> "ecy", Fcy |-> "fcy", Gcy |-> "gcy", Hardcy |-> "hardcy",
     Icy |-> "icy", Iecy |-> "iecy", Iocy |-> "iocy", Jcy |-> "jcy",
     Kcy |-> "kcy", Khcy |-> "khcy", Lcy |-> "lcy", Mcy |-> "mcy",
     Ncy |-> "ncy", Ocy |-> "ocy", Pcy |-> "pcy", Rcy |-> "rcy",
     Scy |-> "scy", Shchcy |-> "shchcy", Shcy |-> "shcy",
     Softcy |-> "softcy", Tcy |-> "tcy", Tscy |-> "tscy", Ucy |-> "ucy",
     Vcy |-> "vcy", Yacy |-> "yacy", Ycy |-> "ycy", Yucy |-> "yucy",
     Zcy |-> "zcy", Zhcy |-> "zhcy"]

LowerChar(c) == IF c \in DOMAIN UpperToLower THEN UpperToLower[c] ELSE c

\* s.lower()
Lower(s) == [i \in 1..Len(s) |-> LowerChar(s[i])]

\* The decimal digits: what \d matches and int() reads.
DecimalDigits == <<"0", "1", "2", "3", "4", "5", "6", "7", "8", "9">>

IsDecimal(c) == \E d \in 1..10 : DecimalDigits[d] = c

DigitValue(c) == (CHOOSE d \in 1..10 : DecimalDigits[d] = c) - 1

\* A character for which str.isdigit() holds: a decimal digit, or a digit
\* that is no decimal (the superscript two), which int() rejects.
IsDigitChar(c) == IsDecimal(c) \/ c = "^2"

\* What \s matches and str.strip() removes.
IsSpace(c) == c \in {" ", "\n"}

\* s.isdigit(): non-empty and every character a digit.
IsDigitStr(s) == Len(s) > 0 /\ \A i \in 1..Len(s) : IsDigitChar(s[i])

\* Whether int(s) succeeds on a string of digits: every digit is a decimal.
IntParses(s) == Len(s) > 0 /\ \A i \in 1..Len(s) : IsDecimal(s[i])

\* int(s) for a string of decimal digits.
RECURSIVE DigitsToInt(_)
DigitsToInt(s) ==
    IF Len(s) = 0 THEN 0
    ELSE 10 * DigitsToInt(SubSeq(s, 1, Len(s) - 1)) + DigitValue(s[Len(s)])

\* str(n) of a non-negative int.
RECURSIVE NatToStr(_)
NatToStr(n) ==
    IF n < 10 THEN <<DecimalDigits[n + 1]>>
    ELSE NatToStr(n \div 10) \o <<DecimalDigits[(n % 10) + 1]>>

\* str(n), as an f-string formats an int.
IntToStr(n) == IF n < 0 THEN <<"-">> \o NatToStr(0 - n) ELSE NatToStr(n)

\* s.strip()
RECURSIVE LStrip(_)
LStrip(s) ==
    IF Len(s) > 0 /\ IsSpace(s[1]) THEN LStrip(Tail(s)) ELSE s

RECURSIVE RStrip(_)
RStrip(s) ==
    IF Len(s) > 0 /\ IsSpace(s[Len(s)])
    THEN RStrip(SubSeq(s, 1, Len(s) - 1)) ELSE s

Strip(s) == RStrip(LStrip(s))

\* s.replace('\n', ' ')
ReplaceNewline(s) == [i \in 1..Len(s) |-> IF s[i] = "\n" THEN " " ELSE s[i]]

\* Whether p occurs in s at position i (1-based).
MatchesAt(s, i, p) ==
    /\ i + Len(p) - 1 <= Len(s)
    /\ \A k \in 1..Len(p) : s[i + k - 1] = p[k]

\* p in s
Contains(s, p) == \E i \in 1..(Len(s) + 1) : MatchesAt(s, i, p)

\* The length of the longest run of decimal digits of s that starts at i.
RECURSIVE DigitRun(_, _)
DigitRun(s, i) ==
    IF i <= Len(s) /\ IsDecimal(s[i]) THEN 1 + DigitRun(s, i + 1) ELSE 0

\* The length of the longest run of whitespace of s that starts at i.
RECURSIVE SpaceRun(_, _)
SpaceRun(s, i) ==
    IF i <= Len(s) /\ IsSpace(s[i]) THEN 1 + SpaceRun(s, i + 1) ELSE 0

-----------------------------------------------------------------------------
(* parse_age_group                                                         *)

\* The upper bound given to an open-ended group.
OlderUpper == 120

\* The alternatives of the open-ended pattern: "и более", "и старше", "+".
OlderTerms ==
    { <<"icy", " ", "bcy", "ocy", "lcy", "iecy", "iecy">>,
      <<"icy", " ", "scy", "tcy", "acy", "rcy", "shcy", "iecy">>,
      <<"+">> }

\* The characters of the range pattern's class [-–—].
DashChars == {"-", "--", "---"}

\* The unit word of the single-age pattern, "лет", whose last letter is
\* optional.
YearsWord == <<"lcy", "iecy", "tcy">>

\* re.match(r'(\d+)\s*(и более|и старше|\+)', s, re.IGNORECASE): the digits
\* and the whitespace are the longest runs (a shorter run is followed by a
\* digit or a space, which starts no alternative), then an alternative,
\* letter case ignored.  The value is group 1, or None.
MatchOlder(s) ==
    LET n == DigitRun(s, 1)
        k == SpaceRun(s, n + 1)
    IN  IF n >= 1 /\ \E t \in OlderTerms : MatchesAt(Lower(s), n + k + 1, t)
        THEN SubSeq(s, 1, n)
        ELSE None

\* re.match(r'(\d+)\s*[-–—]\s*(\d+)', s): groups 1 and 2, or None.
MatchRange(s) ==
    LET n1 == DigitRun(s, 1)
        k1 == SpaceRun(s, n1 + 1)
        d  == n1 + k1 + 1
        k2 == SpaceRun(s, d + 1)
        n2 == DigitRun(s, d + k2 + 1)
    IN  IF n1 >= 1 /\ d <= Len(s) /\ s[d] \in DashChars /\ n2 >= 1
        THEN <<SubSeq(s, 1, n1), SubSeq(s, d + k2 + 1, d + k2 + n2)>>
        ELSE None

\* re.match(r'(\d+)\s*(лет?)?$', s) on a stripped s: group 1, or None.
MatchSingle(s) ==
    LET n == DigitRun(s, 1)
        k == SpaceRun(s, n + 1)
        rest == SubSeq(s, n + k + 1, Len(s))
    IN  IF n >= 1 /\ rest \in {<<>>, SubSeq(YearsWord, 1, 2), YearsWord}
        THEN SubSeq(s, 1, n)
        ELSE None

\* A slip: the open-ended group closed at its own lower bound.
OlderBounds_Closed(lower) == <<lower, lower>>

\* The open-ended branch's result.
OlderBounds(lower) == <<lower, OlderUpper>>

\* The range branch's result.
RangeBounds(lower, upper) == <<lower, upper>>

\* parse_age_group(age_str): a pair (lower, upper), or None.
parse_age_group(age_str) ==
    IF age_str = None THEN None
    ELSE LET s == Strip(age_str)
             match_older == MatchOlder(s)
             match_range == MatchRange(s)
             match_single == MatchSingle(s)
         IN  IF match_older # None
               THEN OlderBounds(DigitsToInt(match_older))
             ELSE IF match_range # None
               THEN RangeBounds(DigitsToInt(match_range[1]),
                                DigitsToInt(match_range[2]))
             ELSE IF match_single # None
               THEN <<DigitsToInt(match_single), DigitsToInt(match_single)>>
             ELSE None

-----------------------------------------------------------------------------
(* calculate_year_range                                                    *)

\* base_year's default.
DefaultBaseYear == 2010

\* A slip: each year taken from the age bound of the same name.
YearBounds_SameName(lower_age, upper_age, base_year) ==
    <<base_year - lower_age, base_year - upper_age>>

\* The two years of the label, (lower_year, upper_year).
YearBounds(lower_age, upper_age, base_year) ==
    <<base_year - upper_age, base_year - lower_age>>

\* calculate_year_range(lower_age, upper_age, base_year): the label
\* f"({lower_year}, {upper_year})".
calculate_year_range(lower_age, upper_age, base_year) ==
    LET years == YearBounds(lower_age, upper_age, base_year)
    IN  <<"(">> \o IntToStr(years[1]) \o <<",", " ">> \o IntToStr(years[2])
            \o <<")">>


-----------------------------------------------------------------------------
(* The rows of a sheet.                                                    *)

\* A cell as both scanners clean it:
\* str(v).replace('\n', ' ').strip() if pd.notna(v) else None
CleanCell(v) == IF v = NaN THEN None ELSE Strip(ReplaceNewline(v))

\* row_values of a row of raw cells.
RowValues(row) == [k \in 1..Len(row) |-> CleanCell(row[k])]

\* Python's truth value of a cell: neither None nor the empty str.
Truthy(v) == v # None /\ Len(v) > 0

\* s.split('.')[0]: s up to its first period.
RECURSIVE BeforePeriod(_)
BeforePeriod(s) ==
    IF Len(s) = 0 \/ s[1] = "." THEN <<>>
    ELSE <<s[1]>> \o BeforePeriod(Tail(s))

\* col_a and col_a.split('.')[0].isdigit(): an item index.
IsItemIndex(col_a) == Truthy(col_a) /\ IsDigitStr(BeforePeriod(col_a))

-----------------------------------------------------------------------------
(* read_nationality_data                                                   *)

STATE_SEARCHING_FO == 0
STATE_SEARCHING_REGION == 1
STATE_SEARCHING_NATION_MARKER == 2
STATE_READING_NATIONS == 3

\* "федеральный округ"
FederalDistrictPhrase ==
    <<"fcy", "iecy", "dcy", "iecy", "rcy", "acy", "lcy", "softcy", "ncy",
      "ycy", "jcy", " ", "ocy", "kcy", "rcy", "ucy", "gcy">>

\* "указавшие национальную"
NationMarkerPhrase ==
    <<"ucy", "kcy", "acy", "zcy", "acy", "vcy", "shcy", "icy", "iecy", " ",
      "ncy", "acy", "tscy", "icy", "ocy", "ncy", "acy", "lcy", "softcy",
      "ncy", "ucy", "yucy">>

\* "принадлежность"
AffiliationWord ==
    <<"pcy", "rcy", "icy", "ncy", "acy", "dcy", "lcy", "iecy", "zhcy", "ncy",
      "ocy", "scy", "tcy", "softcy">>

\* The names a nationality row may not carry: "указавшие национальную
\* принадлежность", "национальность не указана", "итого", "лица,",
\* "не указавшие национальную", "принадлежность",
\* "(не перечисленные выше)".
NationStoplist ==
    { NationMarkerPhrase \o <<" ">> \o AffiliationWord,
      <<"ncy", "acy", "tscy", "icy", "ocy", "ncy", "acy", "lcy", "softcy",
        "ncy", "ocy", "scy", "tcy", "softcy", " ", "ncy", "iecy", " ", "ucy",
        "kcy", "acy", "zcy", "acy", "ncy", "acy">>,
      <<"icy", "tcy", "ocy", "gcy", "ocy">>,
      <<"lcy", "icy", "tscy", "acy", ",">>,
      <<"ncy", "iecy", " ">> \o NationMarkerPhrase,
      AffiliationWord,
      <<"(", "ncy", "iecy", " ", "pcy", "iecy", "rcy", "iecy", "chcy", "icy",
        "scy", "lcy", "iecy", "ncy", "ncy", "ycy", "iecy", " ", "vcy", "ycy",
        "shcy", "iecy", ")">> }

\* The number of columns the scanner reads of a row: A, B, C, D.
NatColumns == 4

\* A test for the phrase in column C alone.
IsFederalDistrictRow_ColumnC(rv) ==
    Truthy(rv[3]) /\ Contains(Lower(rv[3]), FederalDistrictPhrase)

\* is_federal_district_row
IsFederalDistrictRow(rv) ==
    LET col_b == rv[2]
        col_c == rv[3]
    IN  \/ Truthy(col_b) /\ Contains(Lower(col_b), FederalDistrictPhrase)
        \/ Truthy(col_c) /\ Contains(Lower(col_c), FederalDistrictPhrase)

\* fo_name = f"{col_b or ''} {col_c or ''}".strip()
FoName(rv) ==
    Strip((IF Truthy(rv[2]) THEN rv[2] ELSE <<>>) \o <<" ">>
            \o (IF Truthy(rv[3]) THEN rv[3] ELSE <<>>))

\* The least length a region name must exceed.
MinRegionName == 3

\* A header test without the test of the name's length.
IsPotentialRegion_AnyLength(rv) ==
    /\ IsItemIndex(rv[1])
    /\ rv[2] = None
    /\ Truthy(rv[3])
    /\ Truthy(rv[4]) /\ IsDigitStr(rv[4])
    /\ ~Contains(Lower(rv[3]), FederalDistrictPhrase)
    /\ ~Contains(Lower(rv[3]), NationMarkerPhrase)

\* is_potential_region
IsPotentialRegion(rv) ==
    LET col_a == rv[1]
        col_b == rv[2]
        col_c == rv[3]
        col_d == rv[4]
    IN  /\ IsItemIndex(col_a)
        /\ col_b = None
        /\ Truthy(col_c)
        /\ Truthy(col_d) /\ IsDigitStr(col_d)
        /\ ~Contains(Lower(col_c), FederalDistrictPhrase)
        /\ ~Contains(Lower(col_c), NationMarkerPhrase)
        /\ Len(col_c) > MinRegionName

\* region_name_cleaned, nation_name: col_c.replace('\n', ' ').strip()
CleanName(col_c) == Strip(ReplaceNewline(col_c))

\* A marker test that also takes a row that looks like a nationality for
\* the marker: the line the source has commented out,
\* state = STATE_READING_NATIONS after the warning.
IsNationMarker_OrLikeNation(rv, current_region) ==
    \/ /\ Truthy(current_region)
       /\ Truthy(rv[3])
       /\ Contains(Lower(rv[3]), NationMarkerPhrase)
    \/ /\ IsItemIndex(rv[1])
       /\ Truthy(rv[3])
       /\ Truthy(rv[4]) /\ IsDigitStr(rv[4])

\* The marker test of STATE_SEARCHING_NATION_MARKER.
IsNationMarker(rv, current_region) ==
    /\ Truthy(current_region)
    /\ Truthy(rv[3])
    /\ Contains(Lower(rv[3]), NationMarkerPhrase)

\* is_like_nation
IsLikeNation(rv) ==
    /\ IsItemIndex(rv[1])
    /\ Truthy(rv[3])
    /\ Truthy(rv[4]) /\ IsDigitStr(rv[4])

\* is_potential_nationality
IsPotentialNationality(rv, current_region) ==
    /\ Truthy(current_region)
    /\ IsItemIndex(rv[1])
    /\ Truthy(rv[3])
    /\ Truthy(rv[4]) /\ IsDigitStr(rv[4])
    /\ Lower(rv[3]) \notin NationStoplist

\* An end of block that needs all four columns to be None.
IsBlockEnd_AllColumns(rv) ==
    rv[1] = None /\ rv[2] = None /\ rv[3] = None /\ rv[4] = None

\* The end of a block of nationalities: col_a, col_c and col_d are None.
IsBlockEnd(rv) == rv[1] = None /\ rv[3] = None /\ rv[4] = None

\* A registration that stores nothing.
RegisterRegion_Skipped(data, region, total_population) == data

\* data[current_region] = (total_population, {})
RegisterRegion(data, region, total_population) ==
    (region :> [total |-> total_population, nations |-> EmptyMap]) @@ data

\* A test that lets a population of 0 through.
StoresPopulation_NonNegative(nation_pop) == nation_pop >= 0

\* Whether a nationality of this population is stored.
StoresPopulation(nation_pop) == nation_pop > 0

\* A store that puts the nationality in the place of the sub-map.
AddNation_Replacing(data, region, nation_name, nation_pop) ==
    [data EXCEPT ![region].nations = (nation_name :> nation_pop)]

\* data[current_region][1][nation_name] = nation_pop
AddNation(data, region, nation_name, nation_pop) ==
    [data EXCEPT ![region].nations = (nation_name :> nation_pop) @@ @]

\* The exceptions of the model: no file at the path, any other failure of
\* read_excel, a column beyond the width of the sheet, int() of a str that
\* is no decimal.
Exceptions == {"FileNotFoundError", "Exception", "IndexError", "ValueError"}

\* except FileNotFoundError, then except Exception.
Caught(exception) ==
    exception = "FileNotFoundError" \/ exception \in Exceptions

\* An except clause that returns what was collected.
ErrorResult_Collected(data) == data

\* What the except clauses return.
ErrorResult(data) == EmptyMap

-----------------------------------------------------------------------------
(* The rows a nationality sheet is made of.  A sheet is a sequence of row  *)
(* numbers into NatSheetRows; EndOfSheet stands for the row after the last *)
(* one.                                                                    *)

SampleRegion ==
    <<"S", "a", "m", "p", "l", "e", " ", "R", "e", "g", "i", "o", "n">>

\* "Тула"
Tula == <<"Tcy", "ucy", "lcy", "acy">>

Russians == <<"R", "u", "s", "s", "i", "a", "n", "s">>

Tatars == <<"T", "a", "t", "a", "r", "s">>

\* "Юги"
Yugi == <<"Yucy", "gcy", "icy">>

Chuvash == <<"C", "h", "u", "v", "a", "s", "h">>

\* The cells A, B, C, D of each row, as read_excel(dtype=str) delivers them.
NatSheetRows ==
    << \* 1: "Южный федеральный округ"
       <<NaN, NaN,
         <<"Yucy", "zhcy", "ncy", "ycy", "jcy", " ">>
           \o FederalDistrictPhrase, NaN>>,
       \* 2, 3, 4: region headers; 3 names the region of 2 again
       << <<"1", ".">>, NaN, SampleRegion, <<"1", "0", "0", "0">> >>,
       << <<"2">>, NaN,
          <<"S", "a", "m", "p", "l", "e", "\n", "R", "e", "g", "i", "o", "n",
            " ">>, <<"7">> >>,
       << <<"3", ".">>, NaN, Tula, <<"0">> >>,
       \* 5: "Указавшие национальную\nпринадлежность"
       <<NaN, NaN,
         <<"Ucy">> \o Tail(NationMarkerPhrase) \o <<"\n">>
           \o AffiliationWord, NaN>>,
       \* 6, 7, 8: nationalities
       << <<"1", ".">>, NaN, Russians, <<"8", "0", "0">> >>,
       << <<"2", ".">>, NaN, Tatars, <<"0">> >>,
       << <<"3", ".">>, NaN, Russians, <<"5">> >>,
       \* 9: a blank row
       <<NaN, NaN, NaN, NaN>>,
       \* 10: a nationality of a three-letter name
       << <<"4">>, NaN, Yugi, <<"3">> >>,
       \* 11: "Итого", a name of the stoplist
       << <<"5">>, NaN, <<"Icy", "tcy", "ocy", "gcy", "ocy">>,
          <<"8", "0", "0">> >>,
       \* 12: column B holds a blank
       << <<"6">>, <<" ">>, Tula, <<"9">> >>,
       \* 13: a count that is a digit but no decimal
       << <<"7">>, NaN, Chuvash, <<"^2">> >>,
       \* 14: an index alone
       << <<"8">>, NaN, NaN, NaN>>,
       \* 15: "Южный федеральный округ" in column B
       <<NaN, <<"Yucy", "zhcy", "ncy", "ycy", "jcy", " ">>
                \o FederalDistrictPhrase, NaN, NaN>>,
       \* 16: a note in column B alone
       <<NaN, <<"x">>, NaN, NaN>> >>

NatRowIds == DOMAIN NatSheetRows

EndOfSheet == 0

\* row_values of every row of NatSheetRows.
NatRowValues == [r \in NatRowIds |-> RowValues(NatSheetRows[r])]

\* The widths of the sheets: one column short of column D, and up to it.
NatWidths == {NatColumns - 1, NatColumns}

-----------------------------------------------------------------------------
(* The scan of read_nationality_data.  nat holds the function's locals:    *)
(* pc is "idle" when the scanner is not the one under check, "start"       *)
(* before read_excel, "scan" inside the loop over the rows and "returned"  *)
(* after the return.  row is the row the loop is at, index the number of   *)
(* rows before it.  The sheet is either known as a whole (sheet) or drawn  *)
(* one row at a time (drawn); ncols is its width.  error names the         *)
(* exception the try block caught, result is the returned value.           *)

\* The most rows of a sheet that is drawn one row at a time.
MaxRows == 7

\* The most nationality rows of a region block of a whole sheet.
MaxNations == 2

\* The sequences of at most n elements of S.
RECURSIVE SeqsUpTo(_, _)
SeqsUpTo(S, n) ==
    IF n = 0 THEN {<<>>}
    ELSE LET shorter == SeqsUpTo(S, n - 1)
         IN  shorter \cup {Append(q, x) : q \in shorter, x \in S}

NatHeaderRows == {2, 3, 4}

NatMarkerRow == 5

NatNationRows == {6, 7, 8, 10}

NatBlankRow == 9

\* A region block: a header, the marker, nationalities and a blank row.
NatBlocks ==
    { <<h, NatMarkerRow>> \o ns \o <<NatBlankRow>> :
        h \in NatHeaderRows, ns \in SeqsUpTo(NatNationRows, MaxNations) }

\* The most nationality rows of a later block of a whole sheet.
MaxLaterNations == 1

NatLaterBlocks ==
    { <<h, NatMarkerRow>> \o ns \o <<NatBlankRow>> :
        h \in NatHeaderRows,
        ns \in SeqsUpTo(NatNationRows, MaxLaterNations) }

\* The whole sheets: a federal district followed by one or two blocks,
\* and one block that no federal district precedes.
NatSheets ==
    LET one == { <<1>> \o b : b \in NatBlocks }
    IN  one \cup { sh \o b : sh \in one, b \in NatLaterBlocks }
            \cup NatBlocks

NatSources ==
    {[drawn |-> TRUE, sheet |-> <<>>, ncols |-> w] : w \in NatWidths}
        \cup {[drawn |-> FALSE, sheet |-> sh, ncols |-> NatColumns] :
                 sh \in NatSheets}

\* The k-th row of a sheet, counted from 0 as pandas does.
RowAt(sheet, k) == IF k < Len(sheet) THEN sheet[k + 1] ELSE EndOfSheet

\* The rows that may stand at index k of the sheet being scanned.
NatRowsAt(n, k) ==
    IF n.drawn
    THEN IF k < MaxRows THEN NatRowIds \cup {EndOfSheet} ELSE {EndOfSheet}
    ELSE {RowAt(n.sheet, k)}

\* A scan that starts out searching for a region.
InitialState_SearchingRegion == STATE_SEARCHING_REGION

\* state = STATE_SEARCHING_FO
InitialState == STATE_SEARCHING_FO

NatStart ==
    [pc |-> "start", drawn |-> FALSE, sheet |-> <<>>, ncols |-> 0,
     index |-> 0, row |-> EndOfSheet,
     data |-> EmptyMap, current_region |-> None, total_population |-> None,
     last_federal_district |-> None, state |-> InitialState,
     error |-> "none", result |-> EmptyMap]

NatIdle == [NatStart EXCEPT !.pc = "idle"]

\* An exception inside the try block: an except clause returns, or the
\* exception leaves the function.
NatRaise(n, exception) ==
    IF Caught(exception)
    THEN [n EXCEPT !.pc = "returned", !.error = exception,
                   !.result = ErrorResult(n.data)]
    ELSE [n EXCEPT !.pc = "raised", !.error = exception]

\* A test that takes every region header for a new region.
IsNewRegion_Always(data, region_name_cleaned) == TRUE

\* Whether a region header names a region the map does not hold yet.
IsNewRegion(data, region_name_cleaned) ==
    region_name_cleaned \notin DOMAIN data

\* The body of the loop on a row of cleaned cells rv.
NatLoopBody(n, rv) ==
    IF Len(rv) < NatColumns THEN NatRaise(n, "IndexError")
    ELSE
    LET col_c == rv[3]
        col_d == rv[4]
    IN
    IF IsFederalDistrictRow(rv)
    THEN [n EXCEPT !.last_federal_district = FoName(rv),
                   !.state = STATE_SEARCHING_REGION,
                   !.current_region = None]
    ELSE IF n.state = STATE_SEARCHING_REGION
    THEN IF IsPotentialRegion(rv)
         THEN LET region_name_cleaned == CleanName(col_c)
              IN  IF IsNewRegion(n.data, region_name_cleaned)
                  THEN IF IntParses(col_d)
                       THEN [n EXCEPT
                               !.current_region = region_name_cleaned,
                               !.total_population = DigitsToInt(col_d),
                               !.data = RegisterRegion(n.data,
                                            region_name_cleaned,
                                            DigitsToInt(col_d)),
                               !.state = STATE_SEARCHING_NATION_MARKER]
                       ELSE NatRaise([n EXCEPT !.current_region =
                                                  region_name_cleaned],
                                     "ValueError")
                  ELSE n
         ELSE n
    ELSE IF n.state = STATE_SEARCHING_NATION_MARKER
    THEN IF IsNationMarker(rv, n.current_region)
         THEN [n EXCEPT !.state = STATE_READING_NATIONS]
         ELSE n
    ELSE IF n.state = STATE_READING_NATIONS
    THEN IF IsPotentialNationality(rv, n.current_region)
         THEN IF IntParses(col_d)
              THEN LET nation_name == CleanName(col_c)
                       nation_pop == DigitsToInt(col_d)
                   IN  IF /\ StoresPopulation(nation_pop)
                          /\ n.current_region \in DOMAIN n.data
                       THEN [n EXCEPT !.data = AddNation(n.data,
                                          n.current_region, nation_name,
                                          nation_pop)]
                       ELSE n
              ELSE NatRaise(n, "ValueError")
         ELSE IF IsBlockEnd(rv)
         THEN [n EXCEPT !.state = STATE_SEARCHING_REGION,
                        !.current_region = None]
         ELSE n
    ELSE n

\* The loop over the rows that are left of a sheet.
RECURSIVE NatScanRows(_, _)
NatScanRows(n, rows) ==
    IF n.pc # "scan" THEN n
    ELSE IF rows = <<>> THEN [n EXCEPT !.pc = "returned", !.result = n.data]
    ELSE NatScanRows(NatLoopBody(n, SubSeq(NatRowValues[Head(rows)], 1,
                                           n.ncols)),
                     Tail(rows))

\* The value read_nationality_data returns on a whole sheet of four columns.
read_nationality_data(sheet) ==
    NatScanRows([NatStart EXCEPT !.pc = "scan", !.sheet = sheet,
                                 !.ncols = NatColumns], sheet).result

\* row_values of the row the loop is at, in a sheet of the scan's width.
NatCurrentRow == SubSeq(NatRowValues[nat.row], 1, nat.ncols)

\* pd.read_excel delivers a sheet.
NatReadExcel ==
    /\ nat.pc = "start"
    /\ \E src \in NatSources :
         \E first \in NatRowsAt(src, 0) :
            nat' = [nat EXCEPT !.pc = "scan", !.drawn = src.drawn,
                               !.sheet = src.sheet, !.ncols = src.ncols,
                               !.row = first]
    /\ UNCHANGED <<pag, cyr, age, db>>

\* pd.read_excel finds no file at the path.
NatFileNotFound ==
    /\ nat.pc = "start"
    /\ nat' = NatRaise(nat, "FileNotFoundError")
    /\ UNCHANGED <<pag, cyr, age, db>>

\* pd.read_excel fails on the file it found.
NatReadError ==
    /\ nat.pc = "start"
    /\ nat' = NatRaise(nat, "Exception")
    /\ UNCHANGED <<pag, cyr, age, db>>

\* One iteration of the loop over the rows.
NatRow ==
    /\ nat.pc = "scan"
    /\ nat.row # EndOfSheet
    /\ LET after == NatLoopBody(nat, NatCurrentRow)
       IN  IF after.pc # "scan"
           THEN nat' = after
           ELSE \E following \in NatRowsAt(nat, nat.index + 1) :
                   nat' = [after EXCEPT !.index = nat.index + 1,
                                        !.row = following]
    /\ UNCHANGED <<pag, cyr, age, db>>

\* The loop is over: return data.
NatReturn ==
    /\ nat.pc = "scan"
    /\ nat.row = EndOfSheet
    /\ nat' = [nat EXCEPT !.pc = "returned", !.result = nat.data]
    /\ UNCHANGED <<pag, cyr, age, db>>

-----------------------------------------------------------------------------
(* read_age_sex_data                                                       *)

\* The columns the scanner reads: D (row_values[3]), I (row_values[8]) and
\* J (row_values[9]).
AgeLabelColumn == 4
MaleColumn == 9
FemaleColumn == 10

\* "в том числе"
IncludingPhrase ==
    <<"vcy", " ", "tcy", "ocy", "mcy", " ", "chcy", "icy", "scy", "lcy",
      "iecy">>

\* "возрасте"
AgePhrase == <<"vcy", "ocy", "zcy", "rcy", "acy", "scy", "tcy", "iecy">>

\* "городское и сельское"
UrbanAndRuralPhrase ==
    <<"gcy", "ocy", "rcy", "ocy", "dcy", "scy", "kcy", "ocy", "iecy", " ",
      "icy", " ", "scy", "iecy", "lcy", "softcy", "scy", "kcy", "ocy",
      "iecy">>

\* The least length a region name of the age/sex sheet must exceed.
MinAgeRegionName == 5

\* s.split()[0] of a stripped, non-empty s: s up to its first blank.
RECURSIVE FirstToken(_)
FirstToken(s) ==
    IF Len(s) = 0 \/ IsSpace(s[1]) THEN <<>>
    ELSE <<s[1]>> \o FirstToken(Tail(s))

\* The conditions of a region header on the row itself.
IsRegionCandidate(region_candidate) ==
    /\ Truthy(region_candidate)
    /\ ~\E k \in 1..Len(FirstToken(region_candidate)) :
           IsDigitChar(FirstToken(region_candidate)[k])
    /\ ~Contains(Lower(region_candidate), IncludingPhrase)
    /\ ~Contains(Lower(region_candidate), AgePhrase)
    /\ parse_age_group(region_candidate) = None
    /\ Len(region_candidate) > MinAgeRegionName

\* A cell of the following row as the lookahead cleans it:
\* str(v).strip() if pd.notna(v) else None
StripCell(v) == IF v = NaN THEN None ELSE Strip(v)

\* A lookahead that accepts every following row.
LookaheadConfirms_Always(next_row) == TRUE

\* The lookahead on the raw cells of the following row.
LookaheadConfirms(next_row) ==
    LET next_row_values == [k \in 1..Len(next_row) |-> StripCell(next_row[k])]
    IN  /\ Truthy(next_row_values[AgeLabelColumn])
        /\ Contains(Lower(next_row_values[AgeLabelColumn]),
                    UrbanAndRuralPhrase)

\* The test of a data row, before its label is parsed.
IsAgeDataRow(age_group_str, male_str, female_str) ==
    /\ Truthy(age_group_str) /\ Truthy(male_str) /\ Truthy(female_str)
    /\ IsDigitStr(male_str) /\ IsDigitStr(female_str)

\* A test that takes every label for an age group.
HasAgeBounds_Always(age_group_str) == TRUE

\* age_bounds = parse_age_group(age_group_str); if age_bounds: a pair is
\* a tuple of two elements and so true, None is false.
HasAgeBounds(age_group_str) == parse_age_group(age_group_str) # None

\* The test of the end of a block of ages.
IsAgeBlockEnd(age_group_str, male_str, female_str) ==
    age_group_str = None /\ male_str = None /\ female_str = None

\* A test that takes every block for one with entries.
HasAgeEntries_Always(data, current_region) == TRUE

\* current_region and data[current_region]: the region has age entries.
HasAgeEntries(data, current_region) ==
    Truthy(current_region) /\ data[current_region] # EmptyMap

\* data[current_region] = {}
RegisterAgeRegion(data, region) == (region :> EmptyMap) @@ data

\* A store that swaps the two counts.
AddAgeGroup_Swapped(data, region, age_group_str, males, females) ==
    [data EXCEPT ![region] = (age_group_str :> <<females, males>>) @@ @]

\* data[current_region][age_group_str] = (males, females)
AddAgeGroup(data, region, age_group_str, males, females) ==
    [data EXCEPT ![region] = (age_group_str :> <<males, females>>) @@ @]

-----------------------------------------------------------------------------
(* The rows an age/sex sheet is made of.                                   *)

\* A row of ten columns with the cells d, i, j in the columns D, I, J.
AgeSheetRow(d, i, j) == <<NaN, NaN, NaN, d, NaN, NaN, NaN, NaN, i, j>>

\* "Республика Адыгея"
Adygea ==
    <<"Rcy", "iecy", "scy", "pcy", "ucy", "bcy", "lcy", "icy", "kcy", "acy",
      " ", "Acy", "dcy", "ycy", "gcy", "iecy", "yacy">>

OmskRegion == <<"O", "m", "s", "k", " ", "r", "e", "g", "i", "o", "n">>

\* "население"
PopulationWord ==
    <<"ncy", "acy", "scy", "iecy", "lcy", "iecy", "ncy", "icy", "iecy">>

\* "Городское и сельское население"
UrbanAndRural ==
    <<"Gcy">> \o Tail(UrbanAndRuralPhrase) \o <<" ">> \o PopulationWord

\* "Городское и\nсельское население"
UrbanAndRuralBroken ==
    [UrbanAndRural EXCEPT ![12] = "\n"]

AgeSheetRows ==
    << \* 1, 2: region headers
       AgeSheetRow(Adygea, NaN, NaN),
       AgeSheetRow(<<"O", "m", "s", "k", "\n", "r", "e", "g", "i", "o", "n",
                     " ">>, NaN, NaN),
       \* 3, 4: the boilerplate row, whole and broken over two lines
       AgeSheetRow(UrbanAndRural, NaN, NaN),
       AgeSheetRow(UrbanAndRuralBroken, NaN, NaN),
       \* 5: "0 - 4"
       AgeSheetRow(<<"0", " ", "-", " ", "4">>, <<"1", "2", "0">>,
                   <<"1", "3", "0">>),
       \* 6: "85 и более"
       AgeSheetRow(<<"8", "5", " ", "icy", " ", "bcy", "ocy", "lcy", "iecy",
                     "iecy">>, <<"7">>, <<"0">>),
       \* 7: " 5 -- 9" with an en dash
       AgeSheetRow(<<" ", "5", " ", "--", " ", "9">>, <<"3">>, <<"4">>),
       \* 8: a blank row
       AgeSheetRow(NaN, NaN, NaN),
       \* 9: a count that is a digit but no decimal
       AgeSheetRow(<<"1">>, <<"^2">>, <<"3">>),
       \* 10: "в том числе в возрасте, лет:"
       AgeSheetRow(IncludingPhrase \o <<" ", "vcy", " ">> \o AgePhrase
                     \o <<",", " ", "lcy", "iecy", "tcy", ":">>, NaN, NaN),
       \* 11: "Итого", a label that is no age group
       AgeSheetRow(<<"Icy", "tcy", "ocy", "gcy", "ocy">>, <<"2", "5", "0">>,
                   <<"2", "6", "0">>),
       \* 12: counts without a label
       AgeSheetRow(NaN, <<"5">>, <<"6">>) >>

AgeRowIds == DOMAIN AgeSheetRows

\* row_values of every row of AgeSheetRows.
AgeRowValues == [r \in AgeRowIds |-> RowValues(AgeSheetRows[r])]

\* The widths of the sheets: one column short of column D, one short of
\* column J, and up to column J.
AgeWidths == {AgeLabelColumn - 1, FemaleColumn - 1, FemaleColumn}

-----------------------------------------------------------------------------
(* The scan of read_age_sex_data.  age holds the function's locals as nat  *)
(* does; following is the row after the one the loop is at, which the      *)
(* lookahead reads; confirmed records that the last iteration registered a *)
(* region and left the loop body by the continue of line 252, so that the  *)
(* row the loop is at is the row whose phrase confirmed the header.        *)

\* The most data rows of a region block of a whole sheet.
MaxLabels == 2

\* The most data rows of a later block of a whole sheet.
MaxLaterLabels == 1

AgeHeaderRows == {1, 2}

AgeBoilerplateRow == 3

AgeDataRows == {5, 6, 7}

AgeBlankRow == 8

\* A region block: a header, the boilerplate row (whole, broken or
\* missing), data rows and a blank row.
AgeBlocks ==
    { <<h>> \o b \o ds \o <<AgeBlankRow>> :
        h \in AgeHeaderRows, b \in {<<AgeBoilerplateRow>>, <<4>>, <<>>},
        ds \in SeqsUpTo(AgeDataRows, MaxLabels) }

AgeLaterBlocks ==
    { <<h, AgeBoilerplateRow>> \o ds \o <<AgeBlankRow>> :
        h \in AgeHeaderRows, ds \in SeqsUpTo(AgeDataRows, MaxLaterLabels) }

\* The whole sheets: one or two blocks.
AgeSheets == AgeBlocks \cup { b \o c : b \in AgeBlocks, c \in AgeLaterBlocks }

AgeSources ==
    {[drawn |-> TRUE, sheet |-> <<>>, ncols |-> w] : w \in AgeWidths}
        \cup {[drawn |-> FALSE, sheet |-> sh, ncols |-> FemaleColumn] :
                 sh \in AgeSheets}

\* The rows that may stand at index k of the sheet being scanned, after
\* the row before.
AgeRowsAt(a, k, before) ==
    IF before = EndOfSheet THEN {EndOfSheet}
    ELSE IF a.drawn
    THEN IF k < MaxRows THEN AgeRowIds \cup {EndOfSheet} ELSE {EndOfSheet}
    ELSE {RowAt(a.sheet, k)}

AgeStart ==
    [pc |-> "start", drawn |-> FALSE, sheet |-> <<>>, ncols |-> 0,
     index |-> 0, row |-> EndOfSheet, following |-> EndOfSheet,
     data |-> EmptyMap, current_region |-> None, reading_ages |-> FALSE,
     confirmed |-> FALSE, error |-> "none", result |-> EmptyMap]

AgeIdle == [AgeStart EXCEPT !.pc = "idle"]

\* An exception inside the try block: an except clause returns, or the
\* exception leaves the function.
AgeRaise(a, exception) ==
    IF Caught(exception)
    THEN [a EXCEPT !.pc = "returned", !.error = exception,
                   !.result = ErrorResult(a.data)]
    ELSE [a EXCEPT !.pc = "raised", !.error = exception]

\* The second half of the loop body: the row as a row of a block of ages.
AgeReadRow(a, rv) ==
    IF ~(a.reading_ages /\ Truthy(a.current_region)) THEN a
    ELSE IF Len(rv) < FemaleColumn THEN AgeRaise(a, "IndexError")
    ELSE
    LET age_group_str == rv[AgeLabelColumn]
        male_str == rv[MaleColumn]
        female_str == rv[FemaleColumn]
    IN
    IF IsAgeDataRow(age_group_str, male_str, female_str)
    THEN IF HasAgeBounds(age_group_str)
         THEN IF IntParses(male_str) /\ IntParses(female_str)
              THEN [a EXCEPT !.data = AddAgeGroup(a.data, a.current_region,
                                         age_group_str,
                                         DigitsToInt(male_str),
                                         DigitsToInt(female_str))]
              ELSE AgeRaise(a, "ValueError")
         ELSE a
    ELSE IF IsAgeBlockEnd(age_group_str, male_str, female_str)
    THEN IF HasAgeEntries(a.data, a.current_region)
         THEN [a EXCEPT !.reading_ages = FALSE, !.current_region = None]
         ELSE a
    ELSE a

\* The body of the loop on a row of cleaned cells rv; next_row holds the
\* raw cells of the following row, has_next tells whether there is one.
AgeLoopBody(a, rv, has_next, next_row) ==
    IF Len(rv) < AgeLabelColumn THEN AgeRaise(a, "IndexError")
    ELSE
    LET region_candidate == rv[AgeLabelColumn]
    IN  IF /\ IsRegionCandidate(region_candidate)
           /\ has_next
           /\ LookaheadConfirms(next_row)
        THEN [a EXCEPT !.current_region = CleanName(region_candidate),
                       !.data = RegisterAgeRegion(a.data,
                                    CleanName(region_candidate)),
                       !.reading_ages = TRUE,
                       !.confirmed = TRUE]
        ELSE AgeReadRow([a EXCEPT !.confirmed = FALSE], rv)

\* row_values of the row the loop is at, in a sheet of the scan's width.
AgeCurrentRow == SubSeq(AgeRowValues[age.row], 1, age.ncols)

\* The raw cells of the following row.
AgeNextRow ==
    IF age.following = EndOfSheet THEN <<>>
    ELSE SubSeq(AgeSheetRows[age.following], 1, age.ncols)

\* pd.read_excel delivers a sheet.
AgeReadExcel ==
    /\ age.pc = "start"
    /\ \E src \in AgeSources :
         \E first \in AgeRowsAt(src, 0, 1) :
            \E second \in AgeRowsAt(src, 1, first) :
               age' = [age EXCEPT !.pc = "scan", !.drawn = src.drawn,
                                  !.sheet = src.sheet, !.ncols = src.ncols,
                                  !.row = first, !.following = second]
    /\ UNCHANGED <<pag, cyr, nat, db>>

\* pd.read_excel finds no file at the path.
AgeFileNotFound ==
    /\ age.pc = "start"
    /\ age' = AgeRaise(age, "FileNotFoundError")
    /\ UNCHANGED <<pag, cyr, nat, db>>

\* pd.read_excel fails on the file it found.
AgeReadError ==
    /\ age.pc = "start"
    /\ age' = AgeRaise(age, "Exception")
    /\ UNCHANGED <<pag, cyr, nat, db>>

\* One iteration of the loop over the rows.
AgeRow ==
    /\ age.pc = "scan"
    /\ age.row # EndOfSheet
    /\ LET after == AgeLoopBody(age, AgeCurrentRow,
                                age.following # EndOfSheet, AgeNextRow)
       IN  IF after.pc # "scan"
           THEN age' = after
           ELSE \E later \in AgeRowsAt(age, age.index + 2, age.following) :
                   age' = [after EXCEPT !.index = age.index + 1,
                                        !.row = age.following,
                                        !.following = later]
    /\ UNCHANGED <<pag, cyr, nat, db>>

\* The loop is over: return data.
AgeReturn ==
    /\ age.pc = "scan"
    /\ age.row = EndOfSheet
    /\ age' = [age EXCEPT !.pc = "returned", !.result = age.data]
    /\ UNCHANGED <<pag, cyr, nat, db>>

-----------------------------------------------------------------------------
(* The fact table of the database (src/src/db.py).  A row of               *)
(* population_fact is the tuple of its column values in the order of       *)
(* FactColumns, and the table is a bag of rows: nothing in the model       *)
(* itself keeps two equal rows, or two rows of one key, out of the table,  *)
(* that is left to the statement insert_population_fact executes.  The     *)
(* schema is not part of src/src/db.py; the table has the columns the      *)
(* INSERT statement names and the one unique constraint FactUniqueKey.     *)

\* The columns of population_fact, in the order of the INSERT statement.
FactColumns == <<"year_id", "nation_id", "territory_id", "gender_id", "count">>

\* The unique constraint of population_fact: the four foreign keys.
FactUniqueKey == {"year_id", "nation_id", "territory_id", "gender_id"}

\* The conflict target of the statement: ON CONFLICT(year_id, nation_id,
\* territory_id, gender_id).
ConflictTarget == {"year_id", "nation_id", "territory_id", "gender_id"}

\* The value a row holds in a column.
ColumnValue(row, column) ==
    row[CHOOSE i \in DOMAIN FactColumns : FactColumns[i] = column]

\* The values a row holds in a set of columns.
KeyOf(row, columns) == [column \in columns |-> ColumnValue(row, column)]

\* SQLite prepares an upsert only when its conflict target is the column
\* set of a unique constraint of the table; otherwise the statement fails
\* with sqlite3.OperationalError before any row is touched.
TargetMatches == ConflictTarget = FactUniqueKey

\* The rows of the table that the new row conflicts with on the constraint.
Conflicting(fact, row) ==
    { r \in BagToSet(fact) :
        KeyOf(r, FactUniqueKey) = KeyOf(row, FactUniqueKey) }

\* The commented-out alternative of the source: DO UPDATE SET
\* count=excluded.count, the stored row takes the new count.
OnConflict_DoUpdate(fact, row) ==
    LET old == Conflicting(fact, row)
        kept == [r \in BagToSet(fact) \ old |-> CopiesIn(r, fact)]
    IN  kept (+) SetToBag({row})

\* DO NOTHING: the table stays as it is and the new row is dropped.
OnConflict(fact, row) == fact

\* cursor.execute(sql, (year_id, nation_id, territory_id, gender_id,
\* count)) on a table whose constraint the conflict target names.
ExecuteInsert(fact, row) ==
    IF Conflicting(fact, row) # {}
    THEN OnConflict(fact, row)
    ELSE fact (+) SetToBag({row})

\* The table holds at most MaxFactRows rows.
MaxFactRows == 2

\* The ids and the counts the calls are made with.
FactIds == {1, 2}

FactCounts == {5, 7}

\* The connection is open on empty tables and no call was made: args is
\* the argument tuple of the last call of insert_population_fact, the empty
\* tuple before the first; dim holds the rows of the dimension tables,
\* name, call and returned the argument of the last call of a get_or_insert
\* function, the table and value it passed on, and what it returned.
DbStart ==
    [pc |-> "open", fact |-> EmptyBag, args |-> <<>>, error |-> None,
     dim |-> [table_name \in {"gender", "nation", "territory", "year"}
                |-> {}],
     name |-> None, call |-> <<>>, returned |-> [none |-> TRUE, id |-> 0]]

DbIdle == [DbStart EXCEPT !.pc = "idle"]

\* insert_population_fact(conn, year_id, nation_id, territory_id,
\* gender_id, count).  sqlite3.IntegrityError is logged and swallowed, any
\* other sqlite3.Error is logged and raised again.
InsertPopulationFact ==
    /\ db.pc = "open"
    /\ \E year_id \in FactIds, nation_id \in FactIds,
          territory_id \in FactIds, gender_id \in FactIds,
          count \in FactCounts :
          LET row == <<year_id, nation_id, territory_id, gender_id, count>>
          IN  IF ~TargetMatches
              THEN db' = [db EXCEPT !.pc = "raised", !.args = row,
                                    !.error = "OperationalError"]
              ELSE /\ BagCardinality(ExecuteInsert(db.fact, row)) <= MaxFactRows
                   /\ db' = [db EXCEPT !.fact = ExecuteInsert(db.fact, row),
                                       !.args = row]
    /\ UNCHANGED <<pag, cyr, nat, age>>

-----------------------------------------------------------------------------
(* The dimension tables of the database (src/src/db.py).  A row of a       *)
(* dimension table is a record of its id and its val, and a table is the   *)
(* set of its rows: the id is the primary key, so no two rows are equal,   *)
(* and nothing in the model itself keeps two rows of one val out of a      *)
(* table, that is left to the statement _get_or_insert_id executes.  The   *)
(* schema is not part of src/src/db.py; the docstring of _get_or_insert_id *)
(* names the columns 'id' (PK) and 'val' (UNIQUE).                         *)

\* The tables the four get_or_insert functions name.
DimTables == {"gender", "nation", "territory", "year"}

\* The unique constraint of a dimension table.
DimUniqueColumn == "val"

\* The rows of a table that a new val conflicts with on the constraint.
DimConflicting(rows, value) ==
    { r \in rows : r[DimUniqueColumn] = value }

\* The id SQLite gives a row inserted without one: one more than the
\* largest id of the table, 1 in an empty table.
NextId(rows) ==
    IF rows = {} THEN 1
    ELSE 1 + (CHOOSE i \in {r.id : r \in rows} :
                 \A r \in rows : r.id <= i)

\* INSERT OR REPLACE: the rows in conflict are deleted and the new row is
\* inserted under a new id.
OrIgnore_Replace(rows, value) ==
    LET kept == rows \ DimConflicting(rows, value)
    IN  kept \cup {[id |-> NextId(rows), val |-> value]}

\* INSERT OR IGNORE on a conflict: the table stays as it is.
OrIgnore(rows, value) == rows

\* INSERT OR IGNORE INTO {table_name} (val) VALUES (?)
InsertOrIgnore(rows, value) ==
    IF DimConflicting(rows, value) # {}
    THEN OrIgnore(rows, value)
    ELSE rows \cup {[id |-> NextId(rows), val |-> value]}

\* SELECT id FROM {table_name} WHERE val = ?: the ids of the rows found.
SelectId(rows, value) == { r.id : r \in { q \in rows : q.val = value } }

\* What a get_or_insert function returns: None or an id.
ReturnNone == [none |-> TRUE, id |-> 0]

ReturnId(i) == [none |-> FALSE, id |-> i]

\* The tables hold at most MaxDimRows rows together.
MaxDimRows == 2

\* The names the calls are made with: "a", " a", "a ", "b", the empty str,
\* a str of one blank, and None.
DimValues ==
    {<<"a">>, <<" ", "a">>, <<"a", " ">>, <<"b">>, <<>>, <<" ">>, None}

\* The number of rows of all the tables t.
RECURSIVE DimRowCount(_, _)
DimRowCount(t, names) ==
    IF names = {} THEN 0
    ELSE LET name == CHOOSE n \in names : TRUE
         IN  Cardinality(t[name]) + DimRowCount(t, names \ {name})

\* _get_or_insert_id(conn, table_name, value) on the connection d: the
\* states the call may end in.  fetchone() delivers one of the rows the
\* SELECT finds.
GetOrInsertId(d, table_name, value) ==
    IF value = None
    THEN {[d EXCEPT !.call = <<table_name, value>>, !.returned = ReturnNone]}
    ELSE LET rows == InsertOrIgnore(d.dim[table_name], value)
             after == [d EXCEPT !.dim[table_name] = rows,
                                !.call = <<table_name, value>>]
         IN  IF SelectId(rows, value) = {}
             THEN {[after EXCEPT !.pc = "raised", !.error = "ValueError"]}
             ELSE {[after EXCEPT !.returned = ReturnId(i)] :
                      i \in SelectId(rows, value)}

\* territory_name_cleaned = territory_name.strip() if territory_name else
\* None
TerritoryNameCleaned(territory_name) ==
    IF Truthy(territory_name) THEN Strip(territory_name) ELSE None

\* The states a call of one of the get_or_insert functions with the
\* argument name, which reaches _get_or_insert_id as value, may end in.
DimCall(table_name, name, value) ==
    { [after EXCEPT !.name = name] :
        after \in { d \in GetOrInsertId(db, table_name, value) :
                      DimRowCount(d.dim, DimTables) <= MaxDimRows } }

\* get_or_insert_gender(conn, gender_name)
GetOrInsertGender ==
    /\ db.pc = "open"
    /\ \E name \in DimValues : db' \in DimCall("gender", name, name)
    /\ UNCHANGED <<pag, cyr, nat, age>>

\* get_or_insert_nation(conn, nation_name)
GetOrInsertNation ==
    /\ db.pc = "open"
    /\ \E name \in DimValues : db' \in DimCall("nation", name, name)
    /\ UNCHANGED <<pag, cyr, nat, age>>

\* get_or_insert_territory(conn, territory_name)
GetOrInsertTerritory ==
    /\ db.pc = "open"
    /\ \E name \in DimValues :
          db' \in DimCall("territory", name, TerritoryNameCleaned(name))
    /\ UNCHANGED <<pag, cyr, nat, age>>

\* get_or_insert_year(conn, year_range_str)
GetOrInsertYear ==
    /\ db.pc = "open"
    /\ \E name \in DimValues : db' \in DimCall("year", name, name)
    /\ UNCHANGED <<pag, cyr, nat, age>>

-----------------------------------------------------------------------------
(* The calls of the two helpers.  Each helper is called once on arguments  *)
(* drawn from a bounded set; pc is "idle" when the helper is not the one   *)
(* under check, "call" before the call and "returned" after it.            *)

\* Ages 0..MaxSmallAge are written out in a label, besides the fixed ones.
MaxSmallAge == 4

\* A label carries at most MaxSpaces whitespace characters between parts.
MaxSpaces == 1

\* The numbers written in the labels: the small ages, the open-ended group
\* of the source's own example and one above the open-ended upper bound.
LabelNumbers == (0..MaxSmallAge) \cup {85, OlderUpper + 1}

Spaces(n) == [i \in 1..n |-> " "]

\* The labels given to parse_age_group: an optional sign or space, a
\* number, spaces, a separator or word, spaces, an optional sign, a number
\* and a trailer, each part possibly empty; and None, a value that is no
\* str.
LabelLead == {<<>>, <<" ">>, <<"-">>}

LabelNumber == {<<>>} \cup {NatToStr(n) : n \in LabelNumbers}

LabelSpace == {Spaces(n) : n \in 0..MaxSpaces}

LabelMiddle ==
    { <<>>, <<"-">>, <<"--">>, <<"---">>, <<"+">>, <<"x">>,
      <<"icy", " ", "bcy", "ocy", "lcy", "iecy", "iecy">>,
      <<"Icy", " ", "Scy", "tcy", "acy", "rcy", "shcy", "iecy">>,
      <<"lcy", "iecy", "tcy">>,
      <<"lcy", "iecy">> }

LabelSign == {<<>>, <<"-">>}

LabelTrail == {<<>>, <<"\n">>, <<"x">>}

AgeLabels ==
    { lead \o n1 \o sp1 \o mid \o sp2 \o sign \o n2 \o trail :
        lead \in LabelLead, n1 \in LabelNumber, sp1 \in LabelSpace,
        mid \in LabelMiddle, sp2 \in LabelSpace, sign \in LabelSign,
        n2 \in LabelNumber, trail \in LabelTrail }

PagIdle == [pc |-> "idle", age_str |-> None, result |-> None]

PagInit ==
    pag \in {[pc |-> "call", age_str |-> s, result |-> None] :
                s \in AgeLabels \cup {None}}

\* The call parse_age_group(age_str).
ParseAgeGroup ==
    /\ pag.pc = "call"
    /\ pag' = [pag EXCEPT !.pc = "returned",
                          !.result = parse_age_group(pag.age_str)]
    /\ UNCHANGED <<cyr, nat, age, db>>

\* The ages and base years given to calculate_year_range.  The third
\* argument is <<b>> when given and <<>> when omitted.
YearSpan == 5

YearAges == ((0 - YearSpan)..YearSpan) \cup {85, OlderUpper}

BaseYears == {<<>>, <<2010>>, <<2002>>, <<3>>}

CyrIdle == [pc |-> "idle", lower_age |-> 0, upper_age |-> 0,
            base_year |-> <<>>, result |-> None]

CyrInit ==
    cyr \in {[pc |-> "call", lower_age |-> lo, upper_age |-> up,
              base_year |-> b, result |-> None] :
                lo \in YearAges, up \in YearAges, b \in BaseYears}

\* The call calculate_year_range(lower_age, upper_age[, base_year]).
CalculateYearRange ==
    /\ cyr.pc = "call"
    /\ LET base_year == IF cyr.base_year = <<>> THEN DefaultBaseYear
                        ELSE cyr.base_year[1]
       IN  cyr' = [cyr EXCEPT !.pc = "returned",
                     !.result = calculate_year_range(cyr.lower_age,
                                                     cyr.upper_age, base_year)]
    /\ UNCHANGED <<pag, nat, age, db>>

InitParse == PagInit /\ cyr = CyrIdle /\ nat = NatIdle /\ age = AgeIdle /\ db = DbIdle

NextParse == ParseAgeGroup

SpecParse == InitParse /\ [][NextParse]_vars

InitYear == CyrInit /\ pag = PagIdle /\ nat = NatIdle /\ age = AgeIdle /\ db = DbIdle

NextYear == CalculateYearRange

SpecYear == InitYear /\ [][NextYear]_vars

InitNat == nat = NatStart /\ age = AgeIdle /\ pag = PagIdle /\ cyr = CyrIdle /\ db = DbIdle

NextNat ==
    \/ NatReadExcel
    \/ NatFileNotFound
    \/ NatReadError
    \/ NatRow
    \/ NatReturn

SpecNat == InitNat /\ [][NextNat]_vars

InitAge == age = AgeStart /\ nat = NatIdle /\ pag = PagIdle /\ cyr = CyrIdle /\ db = DbIdle

NextAge ==
    \/ AgeReadExcel
    \/ AgeFileNotFound
    \/ AgeReadError
    \/ AgeRow
    \/ AgeReturn

SpecAge == InitAge /\ [][NextAge]_vars

InitDb ==
    /\ db = DbStart
    /\ nat = NatIdle /\ age = AgeIdle /\ pag = PagIdle /\ cyr = CyrIdle

NextDb == InsertPopulationFact

SpecDb == InitDb /\ [][NextDb]_vars

InitDim ==
    /\ db = DbStart
    /\ nat = NatIdle /\ age = AgeIdle /\ pag = PagIdle /\ cyr = CyrIdle

NextDim ==
    \/ GetOrInsertGender
    \/ GetOrInsertNation
    \/ GetOrInsertTerritory
    \/ GetOrInsertYear

SpecDim == InitDim /\ [][NextDim]_vars

InitScan == (InitNat \/ InitAge)

NextScan == (NextNat \/ NextAge)

SpecScan == InitScan /\ [][NextScan]_vars

-----------------------------------------------------------------------------
(* Properties of parse_age_group.                                          *)

AllDecimal(s) == \A i \in 1..Len(s) : IsDecimal(s[i])

AllSpace(s) == \A i \in 1..Len(s) : IsSpace(s[i])

\* s reads digits s[1..i], whitespace s[i+1..j] and then one of the
\* open-ended words.
OlderAt(s, i, j) ==
    /\ AllDecimal(SubSeq(s, 1, i))
    /\ AllSpace(SubSeq(s, i + 1, j))
    /\ \E t \in OlderTerms : MatchesAt(Lower(s), j + 1, t)

\* s reads digits s[1..i], whitespace s[i+1..j], a dash s[j+1], whitespace
\* s[j+2..k] and the digits s[k+1..m], which no further digit follows.
RangeAt(s, i, j, k, m) ==
    /\ AllDecimal(SubSeq(s, 1, i))
    /\ AllSpace(SubSeq(s, i + 1, j))
    /\ j + 1 <= Len(s) /\ s[j + 1] \in DashChars
    /\ AllSpace(SubSeq(s, j + 2, k))
    /\ AllDecimal(SubSeq(s, k + 1, m))
    /\ (m = Len(s) \/ ~IsDecimal(s[m + 1]))

\* s reads digits s[1..i], whitespace s[i+1..j] and then nothing, or the
\* years word with or without its last letter, up to the end of s.
SingleAt(s, i, j) ==
    /\ AllDecimal(SubSeq(s, 1, i))
    /\ AllSpace(SubSeq(s, i + 1, j))
    /\ SubSeq(s, j + 1, Len(s)) \in
          {<<>>, <<"lcy", "iecy">>, <<"lcy", "iecy", "tcy">>}

\* The prefixes of s that are digits followed by whitespace: the pairs
\* <<i, j>> with s[1..i] digits, i >= 1, and s[i+1..j] whitespace.
NumberPrefixes(s) ==
    { p \in (1..DigitRun(s, 1)) \X (0..Len(s)) :
        p[1] <= p[2] /\ p[2] <= p[1] + SpaceRun(s, p[1] + 1) }

OlderForm(s) == \E p \in NumberPrefixes(s) : OlderAt(s, p[1], p[2])

RangeForm(s) ==
    \E p \in NumberPrefixes(s) :
      \E k \in (p[2] + 1)..Len(s) : \E m \in (k + 1)..Len(s) :
        RangeAt(s, p[1], p[2], k, m)

SingleForm(s) == \E p \in NumberPrefixes(s) : SingleAt(s, p[1], p[2])

\* The open-ended words as a label may spell them.
OlderSpellings ==
    OlderTerms \cup
      { <<"Icy", " ", "Scy", "tcy", "acy", "rcy", "shcy", "iecy">> }

\* The labels of the three shapes the contract names, written with the
\* numbers of Numbers, each with the result the contract gives it:
\* "N и более" (or "и старше", "+") -> (N, 120), "N1 - N2" -> (N1, N2),
\* "N" or "N лет" -> (N, N).
ShapeLabels(Numbers) ==
    { <<IntToStr(n) \o sp \o t, <<n, 120>>>> :
        n \in Numbers, sp \in LabelSpace, t \in OlderSpellings }
    \cup
    { <<IntToStr(n[1]) \o sp[1] \o <<d>> \o sp[2] \o IntToStr(n[2]),
        <<n[1], n[2]>>>> :
        n \in Numbers \X Numbers, sp \in LabelSpace \X LabelSpace,
        d \in DashChars }
    \cup
    { <<IntToStr(n) \o sp \o w, <<n, n>>>> :
        n \in Numbers, sp \in LabelSpace,
        w \in {<<>>, <<"lcy", "iecy", "tcy">>} }

NonNegativeShapes == ShapeLabels((0..MaxSmallAge) \cup {85, 121})

IntegerShapes == ShapeLabels(((0 - MaxSmallAge)..MaxSmallAge) \cup {85, 121})

\* What the contract of parse_age_group says of a returned call: the
\* labels of the three shapes give the results listed in Shapes; a str is
\* matched against the open-ended, the range and the single-age pattern in
\* this order and the first match gives the result; a str matching none of
\* them, and a value that is no str, gives None.
AgeGroupContract(Shapes) ==
    pag.pc = "returned" =>
      LET s == IF pag.age_str = None THEN <<>> ELSE Strip(pag.age_str)
          older == OlderForm(s)
          range == RangeForm(s)
          single == SingleForm(s)
      IN
      /\ pag.age_str = None => pag.result = None
      /\ \A e \in Shapes : pag.age_str = e[1] => pag.result = e[2]
      /\ pag.age_str # None =>
           /\ \A p \in NumberPrefixes(s) :
                LET i == p[1]
                    j == p[2]
                IN
                /\ OlderAt(s, i, j)
                     => pag.result = <<DigitsToInt(SubSeq(s, 1, i)), 120>>
                /\ (~older /\ j + 1 <= Len(s) /\ s[j + 1] \in DashChars) =>
                     \A k \in (j + 1)..Len(s) : \A m \in (k + 1)..Len(s) :
                       RangeAt(s, i, j, k, m)
                         => pag.result =
                              <<DigitsToInt(SubSeq(s, 1, i)),
                                DigitsToInt(SubSeq(s, k + 1, m))>>
                /\ (~older /\ ~range /\ SingleAt(s, i, j))
                     => pag.result = <<DigitsToInt(SubSeq(s, 1, i)),
                                       DigitsToInt(SubSeq(s, 1, i))>>
           /\ (~older /\ ~range /\ ~single) => pag.result = None

\* C8: every interval parse_age_group returns has its lower bound at most
\* its upper bound.
C8_IntervalOrdered ==
    (pag.pc = "returned" /\ pag.result # None)
      => pag.result[1] <= pag.result[2]

\* C9 as stated: the three label shapes give (N, 120), (N1, N2) and (N, N)
\* for all integers, every other input gives None.
C9_AllIntegers == AgeGroupContract(IntegerShapes)

\* C9 amended: the three label shapes give (N, 120), (N1, N2) and (N, N)
\* for all non-negative integers N, N1, N2 (a label with a minus sign
\* before its first number matches no pattern and gives None); patterns are
\* tried in the order open-ended, range, single; every input matching none
\* of them, and a value that is no str, gives None.
C9_NonNegative == AgeGroupContract(NonNegativeShapes)

\* C9's case: "85 и более" was parsed to (85, 120), "0 - 4" is among the
\* labels, and a label of no shape was parsed to None.
C9_Witness ==
    /\ pag.pc = "returned"
    /\ pag.age_str = <<"8", "5", " ", "icy", " ", "bcy", "ocy", "lcy",
                       "iecy", "iecy">>
    /\ pag.result = <<85, 120>>

-----------------------------------------------------------------------------
(* Properties of calculate_year_range.                                     *)

\* int(s) of a decimal numeral with an optional minus sign.
StrToInt(s) ==
    IF Len(s) > 0 /\ s[1] = "-" THEN 0 - DigitsToInt(Tail(s))
    ELSE DigitsToInt(s)

\* The two years read back from a label "(y1, y2)".
LabelYears(label) ==
    LET c == CHOOSE i \in 1..Len(label) : label[i] = ","
    IN  <<StrToInt(SubSeq(label, 2, c - 1)),
          StrToInt(SubSeq(label, c + 2, Len(label) - 1))>>

\* C10: the label is "(base_year - upper_age, base_year - lower_age)" with
\* base_year 2010 when omitted; (0, 4, 2010) gives "(2006, 2010)" and
\* (85, 120, 2010) gives "(1890, 1925)"; the first year is at most the
\* second exactly when lower_age <= upper_age.
C10_YearRange ==
    cyr.pc = "returned" =>
      LET base == IF cyr.base_year = <<>> THEN 2010 ELSE cyr.base_year[1]
          label == cyr.result
      IN  /\ label[1] = "(" /\ label[Len(label)] = ")"
          /\ Cardinality({i \in 1..Len(label) : label[i] = ","}) = 1
          /\ LabelYears(label) =
               <<base - cyr.upper_age, base - cyr.lower_age>>
          /\ label = <<"(">> \o IntToStr(base - cyr.upper_age) \o <<",", " ">>
                       \o IntToStr(base - cyr.lower_age) \o <<")">>
          /\ (LabelYears(label)[1] <= LabelYears(label)[2])
               <=> (cyr.lower_age <= cyr.upper_age)
          /\ (cyr.lower_age = 0 /\ cyr.upper_age = 4 /\ base = 2010)
               => label = <<"(", "2", "0", "0", "6", ",", " ",
                            "2", "0", "1", "0", ")">>
          /\ (cyr.lower_age = 85 /\ cyr.upper_age = 120 /\ base = 2010)
               => label = <<"(", "1", "8", "9", "0", ",", " ",
                            "1", "9", "2", "5", ")">>

\* C10's case: the call (85, 120) with base_year omitted returned
\* "(1890, 1925)".
C10_Witness ==
    /\ cyr.pc = "returned"
    /\ cyr.lower_age = 85 /\ cyr.upper_age = 120 /\ cyr.base_year = <<>>
    /\ cyr.result = <<"(", "1", "8", "9", "0", ",", " ",
                      "1", "9", "2", "5", ")">>

-----------------------------------------------------------------------------
(* Properties of read_nationality_data.  What a row says is written down   *)
(* here by hand, apart from the scanner's own tests: the region and total  *)
(* of a header row, the name and count of a nationality row.               *)

NatHeaderMeaning ==
    [r \in NatHeaderRows |->
        CASE r = 2 -> [name |-> SampleRegion, total |-> 1000]
          [] r = 3 -> [name |-> SampleRegion, total |-> 7]
          [] r = 4 -> [name |-> Tula, total |-> 0]]

NatNationMeaning ==
    [r \in NatNationRows |->
        CASE r = 6 -> [name |-> Russians, count |-> 800]
          [] r = 7 -> [name |-> Tatars, count |-> 0]
          [] r = 8 -> [name |-> Russians, count |-> 5]
          [] r = 10 -> [name |-> Yugi, count |-> 3]]

\* The sheet is one federal-district row, one region header, the marker,
\* nationality rows and a closing blank row.
IsOneBlockSheet(sheet) ==
    /\ Len(sheet) >= 4
    /\ sheet[1] = 1
    /\ sheet[2] \in NatHeaderRows
    /\ sheet[3] = NatMarkerRow
    /\ sheet[Len(sheet)] = NatBlankRow
    /\ \A k \in 4..(Len(sheet) - 1) : sheet[k] \in NatNationRows

\* The nationality rows of a one-block sheet carry distinct names.
HasDistinctNations(sheet) ==
    \A j, k \in 4..(Len(sheet) - 1) :
        j # k => NatNationMeaning[sheet[j]].name
                    # NatNationMeaning[sheet[k]].name

\* {region: (total, {name: count for every nationality row with count > 0})}
OneBlockMap(sheet) ==
    LET header == NatHeaderMeaning[sheet[2]]
        stored == {k \in 4..(Len(sheet) - 1) :
                      NatNationMeaning[sheet[k]].count > 0}
        names == {NatNationMeaning[sheet[k]].name : k \in stored}
    IN  header.name :>
          [total |-> header.total,
           nations |->
             [nm \in names |->
                NatNationMeaning[sheet[CHOOSE k \in stored :
                    NatNationMeaning[sheet[k]].name = nm]].count]]

\* The sheet of the example: 'Sample Region' 1000, 'Russians' 800,
\* 'Tatars' 0.
ExampleSheet == <<1, 2, NatMarkerRow, 6, 7, NatBlankRow>>

ExampleMap ==
    SampleRegion :> [total |-> 1000, nations |-> Russians :> 800]

\* C1: on a sheet of one federal-district row, one region header, the
\* marker, nationality rows of distinct names and a closing blank row,
\* read_nationality_data returns without an exception exactly
\* {region: (total, {name: count})} over the nationality rows whose count is
\* above 0; on the example sheet it returns
\* {'Sample Region': (1000, {'Russians': 800})}.
C1_OneBlockSheet ==
    /\ (nat.pc = "returned" /\ IsOneBlockSheet(nat.sheet)
            /\ HasDistinctNations(nat.sheet))
         => (nat.error = "none" /\ nat.result = OneBlockMap(nat.sheet))
    /\ (nat.pc = "returned" /\ nat.sheet = ExampleSheet)
         => nat.result = ExampleMap

\* C1's case: the example sheet has been scanned to its end and the map of
\* the example returned.
C1_Witness ==
    /\ nat.pc = "returned"
    /\ nat.sheet = ExampleSheet
    /\ nat.index = Len(ExampleSheet)
    /\ nat.result = ExampleMap

\* The rows that meet the conditions of a region header (an index in A,
\* nothing in B, a name of more than three letters in C, digits in D), and
\* the region each of them names.
NatHeaderShaped == {2, 3, 4, 6, 7, 8, 11, 13}

NatNamedRegion ==
    [r \in NatHeaderShaped |->
        CASE r \in {2, 3} -> SampleRegion
          [] r = 4 -> Tula
          [] r \in {6, 8} -> Russians
          [] r = 7 -> Tatars
          [] r = 11 -> <<"Icy", "tcy", "ocy", "gcy", "ocy">>
          [] r = 13 -> Chuvash]

\* One iteration of the loop keeps the first occurrence of every region.
FirstOccurrenceKept ==
    (nat.pc = "scan" /\ nat.row # EndOfSheet) =>
        /\ ( /\ nat.state = STATE_SEARCHING_REGION
             /\ nat.row \in NatHeaderShaped
             /\ NatNamedRegion[nat.row] \in DOMAIN nat.data )
             => ( /\ nat'.data = nat.data
                  /\ nat'.current_region = nat.current_region )
        /\ \A region \in DOMAIN nat.data :
              region # nat.current_region
                 => ( /\ region \in DOMAIN nat'.data
                      /\ nat'.data[region] = nat.data[region]
                      /\ nat'.current_region # region )

\* C4: a row that the scanner reads as a region header (state
\* SEARCHING_REGION) and that names a region already in the map changes
\* neither the map nor the current region; and an entry of the map whose
\* region is not the current one is never changed again nor does its region
\* become the current one again, so no later nationality row is stored
\* under it.
C4_FirstOccurrenceWins == [][FirstOccurrenceKept]_vars

\* A sheet with the block of 'Sample Region' twice, 'Russians' 800 in both.
RepeatedSheet ==
    <<1, 2, NatMarkerRow, 6, NatBlankRow, 3, NatMarkerRow, 6, NatBlankRow>>

\* C4's case: the sheet that repeats the block of 'Sample Region' has been
\* scanned to its end and the region's entry is the one of its first block.
C4_Witness ==
    /\ nat.pc = "returned"
    /\ nat.sheet = RepeatedSheet
    /\ nat.index = Len(RepeatedSheet)
    /\ nat.result[SampleRegion]
         = [total |-> 1000, nations |-> Russians :> 800]

\* The end of the first block of a whole sheet: its first blank row.
FirstBlockEnd(sheet) ==
    CHOOSE k \in 1..Len(sheet) :
        /\ sheet[k] = NatBlankRow
        /\ \A j \in 1..(k - 1) : sheet[j] # NatBlankRow

\* The sheet holds two blocks and the second names the region of the first.
RepeatsFirstBlock(sheet) ==
    /\ Len(sheet) > 0
    /\ Len(sheet) > FirstBlockEnd(sheet)
    /\ NatHeaderMeaning[sheet[FirstBlockEnd(sheet) + 1]].name
         = NatHeaderMeaning[sheet[2]].name

\* C5: scanning a sheet whose second block names the region of its first
\* block returns the map that scanning the sheet without the second block
\* returns.
C5_RepeatedBlockDropped ==
    (nat.pc = "returned" /\ RepeatsFirstBlock(nat.sheet))
        => nat.result
             = read_nationality_data(SubSeq(nat.sheet, 1,
                                            FirstBlockEnd(nat.sheet)))

\* Every population stored in a nation sub-map of m is above 0.
HasPositivePopulations(m) ==
    \A region \in DOMAIN m :
        \A nation \in DOMAIN m[region].nations :
            m[region].nations[nation] > 0

\* The nationality rows of a one-block sheet all have the count 0.
HasOnlyZeroCounts(sheet) ==
    \A k \in 4..(Len(sheet) - 1) : NatNationMeaning[sheet[k]].count = 0

\* A region of total 0 has an empty nation sub-map.
ZeroTotalIsEmpty(m) ==
    \A region \in DOMAIN m :
        m[region].total = 0 => m[region].nations = EmptyMap

\* C6 as stated: every stored population is above 0, a region whose
\* nationality rows all have count 0 keeps an empty nation sub-map, and so
\* does a region whose total is 0.
C6_PositiveOrZeroTotal ==
    /\ HasPositivePopulations(nat.data)
    /\ HasPositivePopulations(nat.result)
    /\ (nat.pc = "returned" /\ IsOneBlockSheet(nat.sheet)
            /\ HasOnlyZeroCounts(nat.sheet))
         => nat.result[NatHeaderMeaning[nat.sheet[2]].name].nations
               = EmptyMap
    /\ ZeroTotalIsEmpty(nat.data)

\* C6 amended: every stored population is above 0, and a region whose
\* nationality rows all have count 0 keeps an empty nation sub-map.
C6_PositivePopulations ==
    /\ HasPositivePopulations(nat.data)
    /\ HasPositivePopulations(nat.result)
    /\ (nat.pc = "returned" /\ IsOneBlockSheet(nat.sheet)
            /\ HasOnlyZeroCounts(nat.sheet))
         => nat.result[NatHeaderMeaning[nat.sheet[2]].name].nations
               = EmptyMap

\* C6's case: a block whose only nationality row has the count 0 has been
\* scanned and its region returned with an empty nation sub-map.
C6_Witness ==
    /\ nat.pc = "returned"
    /\ nat.sheet = <<1, 2, NatMarkerRow, 7, NatBlankRow>>
    /\ nat.index = 5
    /\ nat.result = SampleRegion :> [total |-> 1000, nations |-> EmptyMap]

-----------------------------------------------------------------------------
(* Properties of read_age_sex_data.  What a row says is written down here  *)
(* by hand: the region of a header row, the label and the two counts of a  *)
(* data row.                                                               *)

AgeHeaderMeaning ==
    [r \in AgeHeaderRows |->
        CASE r = 1 -> Adygea
          [] r = 2 -> OmskRegion]

\* "0 - 4", "85 и более", "5 -- 9"
AgeDataMeaning ==
    [r \in AgeDataRows |->
        CASE r = 5 -> [label |-> <<"0", " ", "-", " ", "4">>,
                       male |-> 120, female |-> 130]
          [] r = 6 -> [label |-> <<"8", "5", " ", "icy", " ", "bcy", "ocy",
                                   "lcy", "iecy", "iecy">>,
                       male |-> 7, female |-> 0]
          [] r = 7 -> [label |-> <<"5", " ", "--", " ", "9">>,
                       male |-> 3, female |-> 4]]

\* The sheet is a region header, the boilerplate row, data rows of distinct
\* labels and a closing blank row.
IsOneRegionSheet(sheet) ==
    /\ Len(sheet) >= 3
    /\ sheet[1] \in AgeHeaderRows
    /\ sheet[2] = AgeBoilerplateRow
    /\ sheet[Len(sheet)] = AgeBlankRow
    /\ \A k \in 3..(Len(sheet) - 1) : sheet[k] \in AgeDataRows
    /\ \A j, k \in 3..(Len(sheet) - 1) : j # k => sheet[j] # sheet[k]

\* {region: {label: (male, female) for every data row}}
OneRegionMap(sheet) ==
    LET rows == {sheet[k] : k \in 3..(Len(sheet) - 1)}
    IN  AgeHeaderMeaning[sheet[1]] :>
          [label \in {AgeDataMeaning[r].label : r \in rows} |->
              LET r == CHOOSE r \in rows : AgeDataMeaning[r].label = label
              IN  <<AgeDataMeaning[r].male, AgeDataMeaning[r].female>>]

\* The sheet of the example: a region, the boilerplate row, '0 - 4' with
\* 120 and 130, a blank row.
AgeExampleSheet == <<1, AgeBoilerplateRow, 5, AgeBlankRow>>

AgeExampleMap == Adygea :> (<<"0", " ", "-", " ", "4">> :> <<120, 130>>)

\* C2: on a sheet of a region header, the boilerplate row, data rows of
\* distinct labels and a closing blank row, read_age_sex_data returns
\* without an exception exactly {region: {label: (male, female)}} over all
\* the data rows, the label being the text of the cell (the blanks around
\* it aside) and not the parsed interval; on the example sheet it returns
\* {region: {'0 - 4': (120, 130)}}.
C2_OneRegionSheet ==
    /\ (age.pc = "returned" /\ IsOneRegionSheet(age.sheet))
         => (age.error = "none" /\ age.result = OneRegionMap(age.sheet))
    /\ (age.pc = "returned" /\ age.sheet = AgeExampleSheet)
         => age.result = AgeExampleMap

\* C2's case: the example sheet has been scanned to its end and the map of
\* the example returned.
C2_Witness ==
    /\ age.pc = "returned"
    /\ age.sheet = AgeExampleSheet
    /\ age.index = Len(AgeExampleSheet)
    /\ age.result = AgeExampleMap

\* The rows that meet the conditions of a region header on the row itself.
AgeHeaderShaped == {1, 2, 3, 4}

\* The row the loop is at meets the header conditions and the row after it,
\* if there is one, does not hold the phrase in column D.
UnconfirmedHeader ==
    /\ age.pc = "scan"
    /\ age.row \in AgeHeaderShaped
    /\ age.following # AgeBoilerplateRow

\* C7: the iteration on a row that meets the header conditions, while the
\* following row does not hold the 'urban and rural' phrase in column D or
\* there is no following row, changes neither the map nor current_region
\* nor reading_ages.
C7_UnconfirmedHeader ==
    [][UnconfirmedHeader =>
         /\ age'.data = age.data
         /\ age'.current_region = age.current_region
         /\ age'.reading_ages = age.reading_ages]_vars

\* C7's case: a sheet whose header is followed by a data row and not by the
\* boilerplate row has been scanned to its end, and nothing was registered.
C7_Witness ==
    /\ age.pc = "returned"
    /\ age.sheet = <<1, 5, AgeBlankRow>>
    /\ age.index = 3
    /\ age.error = "none"
    /\ age.result = EmptyMap

-----------------------------------------------------------------------------
(* Properties of both scanners.                                            *)

\* A scan that met an exception returned the empty map, and no exception
\* left the function.
ReturnsEmptyOnError(scan) ==
    /\ scan.pc # "raised"
    /\ scan.error # "none" => (scan.pc = "returned" /\ scan.result = EmptyMap)

\* C3: neither scanner lets an exception out: after a missing file, a
\* failed read or an exception on any row, the scanner has returned the
\* empty map, also when entries had been collected before.
C3_NeverRaises == ReturnsEmptyOnError(nat) /\ ReturnsEmptyOnError(age)

\* C3's case: int() failed on a row after the nationality scanner had
\* collected a region, and the scanner returned the empty map.
C3_Witness ==
    /\ nat.pc = "returned"
    /\ nat.error = "ValueError"
    /\ nat.data # EmptyMap
    /\ nat.result = EmptyMap

\* Every entry of the nationality map m is in the map n as it is in m.
NatEntriesKept(m, n) ==
    \A region \in DOMAIN m :
        /\ region \in DOMAIN n
        /\ n[region].total = m[region].total
        /\ \A nation \in DOMAIN m[region].nations :
              /\ nation \in DOMAIN n[region].nations
              /\ n[region].nations[nation] = m[region].nations[nation]

\* Every entry of the age/sex map m is in the map n as it is in m.
AgeEntriesKept(m, n) ==
    \A region \in DOMAIN m :
        /\ region \in DOMAIN n
        /\ \A label \in DOMAIN m[region] :
              /\ label \in DOMAIN n[region]
              /\ n[region][label] = m[region][label]

\* C11: no step of either scanner changes or removes what its map holds:
\* a region's total, a nation's count under a region, an age label's pair
\* of counts under a region.
C11_NoEntryMutated ==
    [][NatEntriesKept(nat.data, nat'.data)
         /\ AgeEntriesKept(age.data, age'.data)]_vars

-----------------------------------------------------------------------------
(* The fact table.                                                         *)

\* The table holds one row at most for every value of the four key columns.
OneRowPerKey(fact) ==
    \A r \in BagToSet(fact) :
        /\ CopiesIn(r, fact) = 1
        /\ Conflicting(fact, r) = {r}

\* C12: insert_population_fact is insert-or-ignore on the key (year_id,
\* nation_id, territory_id, gender_id): no call raises, after every call
\* the table holds at most one row per key, a call whose key is in the
\* table leaves the table as it was (the stored count stays, the new count
\* is dropped), and a call whose key is not in the table adds its row.
C12_InsertOrIgnore ==
    [][/\ db'.pc # "raised"
       /\ OneRowPerKey(db'.fact)
       /\ IF Conflicting(db.fact, db'.args) # {}
          THEN db'.fact = db.fact
          ELSE db'.fact = db.fact (+) SetToBag({db'.args})]_db

\* A call was made with a key the table already held with another count,
\* and the table still holds the first count for that key.
C12_Witness ==
    /\ db.pc = "open"
    /\ db.args = <<1, 2, 1, 2, 7>>
    /\ BagToSet(db.fact) = {<<1, 2, 1, 2, 5>>}
    /\ CopiesIn(<<1, 2, 1, 2, 5>>, db.fact) = 1

-----------------------------------------------------------------------------
(* The states of the nationality scanner.                                  *)

\* The rows that hold the 'federal district' phrase in column B or C, and
\* the district name each of them gives.
NatDistrictRows == {1, 15}

NatDistrictName ==
    [r \in NatDistrictRows |->
        <<"Yucy", "zhcy", "ncy", "ycy", "jcy", " ">> \o FederalDistrictPhrase]

\* The loop is at a row of a sheet that has the four columns it reads.
NatAtRow == nat.pc = "scan" /\ nat.row # EndOfSheet /\ nat.ncols = NatColumns

\* One iteration on a federal-district row, whatever the state.
FederalDistrictReset ==
    (NatAtRow /\ nat.row \in NatDistrictRows) =>
        /\ nat'.pc = "scan"
        /\ nat'.state = STATE_SEARCHING_REGION
        /\ nat'.current_region = None
        /\ nat'.last_federal_district = NatDistrictName[nat.row]
        /\ nat'.data = nat.data

\* No district name is a region or a nation of the map m, whose totals and
\* populations are numbers.
DistrictNotIn(m) ==
    \A d \in {NatDistrictName[r] : r \in NatDistrictRows} :
        /\ d \notin DOMAIN m
        /\ \A region \in DOMAIN m :
              /\ m[region].total \in Nat
              /\ d \notin DOMAIN m[region].nations
              /\ \A nation \in DOMAIN m[region].nations :
                    m[region].nations[nation] \in Nat

\* C13: in every state of the scanner the iteration on a row that holds the
\* 'federal district' phrase sets the state to SEARCHING_REGION, clears the
\* current region, records the district name and leaves the map as it was;
\* and no district name is ever a key or a value of the map or of the
\* returned result.
C13_FederalDistrictReset ==
    [][/\ FederalDistrictReset
       /\ DistrictNotIn(nat'.data)
       /\ DistrictNotIn(nat'.result)]_vars

\* A district row was read while the scanner was looking for the marker of
\* a registered region: three rows were read, the map holds the region, and
\* the scanner is back in SEARCHING_REGION without a current region, which
\* from SEARCHING_NATION_MARKER only a district row brings about.
C13_Witness ==
    /\ nat.pc = "scan"
    /\ nat.index = 3
    /\ DOMAIN nat.data = {SampleRegion}
    /\ nat.state = STATE_SEARCHING_REGION
    /\ nat.current_region = None
    /\ nat.last_federal_district = NatDistrictName[15]

\* The rows that meet the conditions of a region header: an item index in
\* column A, nothing in column B, in column C a name of more than three
\* characters without either phrase, in column D a non-negative integer.
\* Not among them are the name of three letters (10), the blank in column
\* B (12) and the count that is no integer (13).
NatAcceptedRows == {2, 3, 4, 6, 7, 8, 11}

\* The integer in column D of those rows.
NatTotal ==
    [r \in NatAcceptedRows |->
        CASE r = 2 -> 1000
          [] r = 3 -> 7
          [] r = 4 -> 0
          [] r \in {6, 11} -> 800
          [] r = 7 -> 0
          [] r = 8 -> 5]

\* One iteration in state SEARCHING_REGION on a row that is no district
\* row: a row of the header conditions that names a region the map does not
\* hold is registered, every other row registers nothing.
RegionHeaderStep ==
    ( /\ NatAtRow
      /\ nat.state = STATE_SEARCHING_REGION
      /\ nat.row \notin NatDistrictRows ) =>
        IF /\ nat.row \in NatAcceptedRows
           /\ NatNamedRegion[nat.row] \notin DOMAIN nat.data
        THEN /\ nat'.pc = "scan"
             /\ DOMAIN nat'.data =
                    DOMAIN nat.data \cup {NatNamedRegion[nat.row]}
             /\ \A region \in DOMAIN nat.data :
                    nat'.data[region] = nat.data[region]
             /\ nat'.data[NatNamedRegion[nat.row]].total = NatTotal[nat.row]
             /\ nat'.data[NatNamedRegion[nat.row]].nations = EmptyMap
             /\ nat'.current_region = NatNamedRegion[nat.row]
             /\ nat'.state = STATE_SEARCHING_NATION_MARKER
        ELSE /\ nat'.data = nat.data
             /\ nat'.state = STATE_SEARCHING_REGION

\* C14: in state SEARCHING_REGION a row is accepted as a region header
\* exactly when it meets the header conditions (item index in A, B empty, C
\* longer than 3 characters and without the two phrases, D a non-negative
\* integer); accepting a name the map does not hold adds region -> (total
\* = D, no nations), makes the region current and sets the state to
\* SEARCHING_NATION_MARKER, and no other row changes the map or the state.
C14_RegionHeader == [][RegionHeaderStep]_vars

\* A header with the total 0 was accepted as the second row of a sheet.
C14_Witness ==
    /\ nat.pc = "scan"
    /\ nat.index = 2
    /\ nat.state = STATE_SEARCHING_NATION_MARKER
    /\ nat.current_region = Tula
    /\ DOMAIN nat.data = {Tula}
    /\ nat.data[Tula].total = 0
    /\ nat.data[Tula].nations = EmptyMap

\* One iteration in state SEARCHING_NATION_MARKER on a row that is no
\* district row: the marker row moves on to READING_NATIONS, every other
\* row, the rows that look like a nationality (2, 3, 4, 6, 7, 8, 10, 11,
\* 12, 13) among them, changes nothing.
MarkerStep ==
    ( /\ NatAtRow
      /\ nat.state = STATE_SEARCHING_NATION_MARKER
      /\ nat.row \notin NatDistrictRows ) =>
        /\ nat'.pc = "scan"
        /\ nat'.data = nat.data
        /\ nat'.current_region = nat.current_region
        /\ nat'.state = IF nat.row = NatMarkerRow
                        THEN STATE_READING_NATIONS
                        ELSE STATE_SEARCHING_NATION_MARKER

\* A region enters the map without nations; the nations of a region change
\* only in a step from READING_NATIONS under that region; and
\* READING_NATIONS is entered only on the marker row from
\* SEARCHING_NATION_MARKER, and kept only with the current region kept.
NationsAfterMarker ==
    /\ \A region \in DOMAIN nat'.data :
          IF region \notin DOMAIN nat.data
          THEN nat'.data[region].nations = EmptyMap
          ELSE nat'.data[region].nations # nat.data[region].nations
                  => /\ nat.state = STATE_READING_NATIONS
                     /\ nat.current_region = region
    /\ nat'.state = STATE_READING_NATIONS
          => /\ nat'.current_region = nat.current_region
             /\ \/ nat.state = STATE_READING_NATIONS
                \/ /\ nat.state = STATE_SEARCHING_NATION_MARKER
                   /\ nat.row = NatMarkerRow

\* C15: in state SEARCHING_NATION_MARKER the marker row moves the scanner
\* to READING_NATIONS and a row that looks like a nationality changes
\* neither the state nor the current region nor the map; so a nation is
\* stored for a region only after the marker row was read under that
\* region, after its header and before the nationality row.
C15_MarkerBeforeNations == [][MarkerStep /\ NationsAfterMarker]_vars

\* The marker row was read as the third row, after the district row and
\* the header of 'Sample Region', and a nationality row is next.
C15_Witness ==
    /\ nat.pc = "scan"
    /\ nat.index = 3
    /\ nat.state = STATE_READING_NATIONS
    /\ nat.current_region = SampleRegion
    /\ DOMAIN nat.data = {SampleRegion}
    /\ nat.data[SampleRegion].nations = EmptyMap
    /\ nat.row = 6

\* The rows whose columns C and D are both empty, and those among them
\* whose column A is empty too.
NatNoNameNoCount == {9, 14, 15, 16}

NatNoIndexNameCount == {9, 15, 16}

\* One iteration in state READING_NATIONS on a row of the set rows ends the
\* block of the current region.
EndsBlock(rows) ==
    (NatAtRow /\ nat.state = STATE_READING_NATIONS /\ nat.row \in rows) =>
        /\ nat'.pc = "scan"
        /\ nat'.state = STATE_SEARCHING_REGION
        /\ nat'.current_region = None
        /\ nat'.data = nat.data

NatMalformedRows ==
    [state \in STATE_SEARCHING_FO..STATE_READING_NATIONS |->
        CASE state = STATE_SEARCHING_FO -> NatRowIds \ NatDistrictRows
          [] state = STATE_SEARCHING_REGION ->
                 NatRowIds \ (NatDistrictRows \cup NatAcceptedRows)
          [] state = STATE_SEARCHING_NATION_MARKER ->
                 NatRowIds \ (NatDistrictRows \cup {NatMarkerRow})
          [] state = STATE_READING_NATIONS -> {NatMarkerRow, 11, 13, 14}]

\* C17: a malformed row, one that is no district row and matches no
\* pattern of the current state, is skipped: state, current region and map
\* are unchanged and the scan goes on with the next row, so that no single
\* row ends the scan of the file or discards the entries collected.
C17_MalformedRowSkipped ==
    [][(NatAtRow /\ nat.row \in NatMalformedRows[nat.state]) =>
          /\ nat'.pc = "scan"
          /\ nat'.state = nat.state
          /\ nat'.current_region = nat.current_region
          /\ nat'.data = nat.data]_vars

-----------------------------------------------------------------------------
(* The rows of the age/sex scanner.                                        *)

\* C18: the row that confirmed a region header is passed over: the
\* iteration after the one that registered the region, which is at the
\* 'urban and rural' row, registers no region, stores no age entry and
\* changes neither current_region nor reading_ages, whatever row follows
\* it.
C18_BoilerplateSkipped ==
    [][(age.pc = "scan" /\ age.confirmed) =>
          /\ age.row = AgeBoilerplateRow
          /\ age'.data = age.data
          /\ age'.current_region = age.current_region
          /\ age'.reading_ages = age.reading_ages]_vars

\* Every entry of the age/sex map n is an entry of the map m.
AgeNothingStored(m, n) ==
    \A region \in DOMAIN n :
        \A label \in DOMAIN n[region] :
            /\ region \in DOMAIN m
            /\ label \in DOMAIN m[region]
            /\ n[region][label] = m[region][label]

\* One iteration of the age/sex scanner: a row with a label that parses
\* and two numbers (the rows 5, 6, 7), read while reading_ages is set under
\* a current region, stores (male, female) under the region and the label;
\* every other iteration stores nothing.
AgeEntryStep ==
    (age.pc = "scan" /\ age.row # EndOfSheet) =>
        IF /\ age.reading_ages
           /\ age.current_region # None
           /\ age.ncols = FemaleColumn
           /\ age.row \in AgeDataRows
        THEN /\ age'.pc = "scan"
             /\ age'.data =
                    [age.data EXCEPT ![age.current_region] =
                        ( AgeDataMeaning[age.row].label :>
                            <<AgeDataMeaning[age.row].male,
                              AgeDataMeaning[age.row].female>> ) @@ @]
        ELSE AgeNothingStored(age.data, age'.data)

\* C19: the age/sex scanner stores an age entry only while reading_ages is
\* set under a current region and only for a row whose label, male count
\* and female count are all there, whose counts are numbers and whose label
\* parse_age_group parses; the entry goes under the current region, keyed
\* by the label text, with the value (male, female); a row that fails one
\* of the conditions stores nothing.
C19_AgeEntryStored == [][AgeEntryStep]_vars

\* The third row of a sheet, '0 - 4' with 120 and 130, was stored under the
\* region of the first row.
C19_Witness ==
    /\ age.pc = "scan"
    /\ age.index = 3
    /\ age.reading_ages
    /\ age.current_region = Adygea
    /\ age.data = (Adygea :> (<<"0", " ", "-", " ", "4">> :> <<120, 130>>))

\* One iteration on the blank row while ages are read under a region: the
\* block ends when the region has an entry, and stays open when it has
\* none; the map is as it was.
BlankRowStep ==
    ( /\ age.pc = "scan"
      /\ age.row = AgeBlankRow
      /\ age.ncols = FemaleColumn
      /\ age.reading_ages
      /\ age.current_region # None ) =>
        /\ age'.pc = "scan"
        /\ age'.data = age.data
        /\ IF age.data[age.current_region] # EmptyMap
           THEN ~age'.reading_ages /\ age'.current_region = None
           ELSE age'.reading_ages
                   /\ age'.current_region = age.current_region

\* C20: while ages are read, a row whose label, male and female fields are
\* all empty ends the block of the current region (reading_ages and
\* current_region cleared) if and only if the region has at least one age
\* entry; with no entry yet the row leaves reading_ages and current_region
\* as they were, so that later data rows are stored under the region.
C20_BlankRowEndsBlock == [][BlankRowStep]_vars

\* The whole sheet of the example was read up to and with its blank row:
\* the block is closed and its entries are kept.
C20_Witness ==
    /\ age.pc = "scan"
    /\ age.sheet = AgeExampleSheet
    /\ age.index = Len(AgeExampleSheet)
    /\ ~age.reading_ages
    /\ age.current_region = None
    /\ age.data = AgeExampleMap

-----------------------------------------------------------------------------
(* The dimension tables under the get_or_insert functions.                 *)

\* The rows of table t that hold the value v.
DimRowsOf(d, t, v) == { r \in d.dim[t] : r.val = v }

\* No table holds two rows of one value, nor two rows of one id.
OneRowPerValue(d) ==
    \A t \in DimTables : \A r, q \in d.dim[t] :
        (r.val = q.val \/ r.id = q.id) => r = q

\* The last call, of table t with value v, went from the tables of d to
\* those of e as an insert-or-ignore upsert: it raised nothing, left the
\* other tables and every row alone, with None returned None and added
\* nothing, with a value already present added nothing, and returned the
\* id of the one row of the value.
UpsertStep(d, e, t, v) ==
    /\ e.pc = "open"
    /\ \A u \in DimTables \ {t} : e.dim[u] = d.dim[u]
    /\ d.dim[t] \subseteq e.dim[t]
    /\ IF v = None
       THEN e.returned.none /\ e.dim[t] = d.dim[t]
       ELSE /\ ~e.returned.none
            /\ DimRowsOf(e, t, v) = {[id |-> e.returned.id, val |-> v]}
            /\ DimRowsOf(d, t, v) # {} => e.dim[t] = d.dim[t]

\* C21: the get_or_insert functions are idempotent insert-or-ignore
\* upserts on the value: every table holds at most one row per value
\* after any sequence of calls; a call never removes or changes a row, so
\* the id of a value never changes; a call with a value already present
\* adds no row and returns the id of the row that holds it; a call with
\* None returns None and inserts nothing.
C21_GetOrInsertIdempotent ==
    [][ /\ OneRowPerValue(db) /\ OneRowPerValue(db')
        /\ db'.call # <<>> =>
              UpsertStep(db, db', db'.call[1], db'.call[2]) ]_db

\* C21 witness: the nation table holds "a" under id 1 and "b" under id 2,
\* so "a" was there before "b", and the last call, get_or_insert_nation
\* of "a", found it there and returned 1.
C21_Witness ==
    /\ db.pc = "open"
    /\ db.dim["nation"] = {[id |-> 1, val |-> <<"a">>],
                           [id |-> 2, val |-> <<"b">>]}
    /\ db.call = <<"nation", <<"a">>>>
    /\ db.returned = ReturnId(1)

-----------------------------------------------------------------------------
(* The current region of the nationality scanner.                          *)

\* The scanner is between two rows, or has returned after the last one:
\* no exception has ended the scan.
NatBetweenRows == nat.pc \in {"scan", "returned"} /\ nat.error = "none"

\* The states in which a region is current.
NatRegionStates == {STATE_SEARCHING_NATION_MARKER, STATE_READING_NATIONS}

\* C22: after every processed row current_region is not None exactly when
\* the state is SEARCHING_NATION_MARKER or READING_NATIONS, and when it is
\* not None it is a key of the map; so a row read in READING_NATIONS finds
\* its region in the map and the branch that reports the current region
\* absent from data is never taken.
C22_CurrentRegionInData ==
    NatBetweenRows =>
        /\ nat.current_region # None <=> nat.state \in NatRegionStates
        /\ nat.current_region # None =>
              nat.current_region \in DOMAIN nat.data
        /\ nat.state = STATE_READING_NATIONS =>
              nat.current_region \in DOMAIN nat.data

\* C22 witness: the scan stands before a row in READING_NATIONS under the
\* second region of its map, having been without a current region after
\* the block of the first.
C22_Witness ==
    /\ nat.pc = "scan" /\ nat.row # EndOfSheet
    /\ nat.state = STATE_READING_NATIONS
    /\ Cardinality(DOMAIN nat.data) = 2
    /\ nat.current_region \in DOMAIN nat.data
    /\ nat.data[nat.current_region].nations = EmptyMap

-----------------------------------------------------------------------------
(* The nationality scanner before the first federal district.              *)

\* No federal-district row has been read: last_federal_district, which
\* every such row sets to its name, is still None.
NoDistrictYet(n) == n.last_federal_district = None

\* The scanner n is in its initial state and holds nothing.
NatNothingRegistered(n) ==
    /\ n.state = STATE_SEARCHING_FO
    /\ n.current_region = None
    /\ DOMAIN n.data = {}

\* C23: in state SEARCHING_FO a row of a sheet of four columns that is no
\* federal-district row, a complete region header included, leaves state,
\* current region and map as they were and ends nothing; the state is
\* SEARCHING_FO exactly as long as no federal-district row was read, and
\* then no region is registered; and a scan that returns without having
\* read a federal-district row returns the empty map.
C23_OnlyDistrictLeavesStart ==
    [][ /\ (NatAtRow /\ nat.state = STATE_SEARCHING_FO
                     /\ nat.row \notin NatDistrictRows) =>
              /\ nat'.pc = "scan" /\ nat'.error = "none"
              /\ nat'.state = nat.state
              /\ nat'.current_region = nat.current_region
              /\ nat'.data = nat.data
        /\ NoDistrictYet(nat') <=> nat'.state = STATE_SEARCHING_FO
        /\ NoDistrictYet(nat') => NatNothingRegistered(nat')
        /\ (NoDistrictYet(nat') /\ nat'.pc = "returned") =>
              DOMAIN nat'.result = {} ]_nat

\* C23 witness: a whole sheet that begins with a complete region header
\* and holds no federal-district row was read to its end, and the scan
\* returned the empty map in state SEARCHING_FO.
C23_Witness ==
    /\ nat.pc = "returned" /\ nat.error = "none" /\ ~nat.drawn
    /\ nat.sheet # <<>> /\ nat.index = Len(nat.sheet)
    /\ nat.sheet[1] \in NatAcceptedRows
    /\ \A k \in 1..Len(nat.sheet) : nat.sheet[k] \notin NatDistrictRows
    /\ nat.state = STATE_SEARCHING_FO
    /\ DOMAIN nat.result = {}

=============================================================================
